---- MODULE Spec2Model ----
(***************************************************************************)
(* Model of the invite-gated authentication service                        *)
(* (src/src/services/auth_service.py, class AuthService) over its SQLite   *)
(* store.                                                                  *)
(*                                                                         *)
(* Values.  Python strings are sequences of one-character strings, so that *)
(* strip() and lower() are computed.  SQL NULL / Python None is the        *)
(* one-element tuple NULL.  A timestamp is Iso(t) for an integer clock     *)
(* reading t; uuids, verification tokens and invite codes are fresh names  *)
(* built from the number of rows already issued, the way uuid.uuid4() and  *)
(* secrets never repeat a value.                                           *)
(*                                                                         *)
(* Transactions.  Every handler body runs inside `with self._connect()`;   *)
(* sqlite3's connection context manager commits when the body returns and  *)
(* rolls back when it raises.  A handler is an operator from the committed *)
(* database to an outcome [err, ret, user, db]: the exception class raised *)
(* ("" when it returns), the value returned, the User value returned, and  *)
(* the database left behind; ConnExit chooses between the working copy and *)
(* the database as it was.                                                 *)
(*                                                                         *)
(* Rows.  Each table is the sequence of its rows in rowid order.  Columns  *)
(* that no handler modelled here reads back are left out: ip,             *)
(* user_agent, label, is_active, the created_at of identities,             *)
(* verifications, events, invites and usages, the last_used_at of          *)
(* identities, and the generated ids of events and usages.                 *)
(***************************************************************************)
EXTENDS Integers, Sequences, FiniteSets, TLC

\* ------------------------------------------------------------------ bounds
MaxTime == 2        \* clock readings 0..MaxTime
MaxUsers == 3       \* rows of users
MaxEvents == 3      \* rows of login_events
MaxVerifications == 2 \* rows of email_verifications
MaxInvites == 1     \* rows of invites
MaxUsages == 2      \* rows of invite_usages
MaxContent == 4     \* tokens of a provider response
MaxProviders == 3   \* default providers created by the facade

\* ------------------------------------------------------- program constants
MinPasswordLen == 8
InviteCodeAttempts == 5

\* `for _attempt in range(6)` of _openai_chat_completions_create_with_fallback
FallbackAttempts == 6

\* ------------------------------------------------------------------ values
NULL == <<"NULL">>

Truthy(s) == s # NULL /\ s # <<>>

\* Python `x or ""`
OrEmpty(s) == IF s = NULL THEN <<>> ELSE s

RECURSIVE LStrip(_)
LStrip(s) == IF s # <<>> /\ Head(s) = " " THEN LStrip(Tail(s)) ELSE s

RECURSIVE RStrip(_)
RStrip(s) == IF s # <<>> /\ s[Len(s)] = " " THEN RStrip(SubSeq(s, 1, Len(s) - 1)) ELSE s

Strip(s) == RStrip(LStrip(s))

LowerChar(c) ==
    IF c = "A" THEN "a" ELSE IF c = "B" THEN "b" ELSE IF c = "O" THEN "o"
    ELSE IF c = "P" THEN "p" ELSE IF c = "R" THEN "r" ELSE c

Lower(s) == [i \in 1..Len(s) |-> LowerChar(s[i])]

normalize_email(email) == Lower(Strip(OrEmpty(email)))

sha256_hex(value) == <<"sha256">> \o value

generate_password_hash(password) == <<"pbkdf2">> \o password

\* A mutation of check_password_hash: any password matches a stored hash.
check_password_hash_any(pwhash, password) == Truthy(pwhash)

check_password_hash(pwhash, password) == pwhash = generate_password_hash(password)

Iso(t) == <<"iso", t>>

FromIso(s) == s[2]

Uuid(table, n) == <<"uuid", table, ToString(n)>>

Token(n) == <<"tok", ToString(n)>>

InviteCode(n) == <<"INV-", ToString(n)>>

SqlInt(n) == <<"int", n>>

IntVal(v) == v[2]

Range(s) == {s[i] : i \in 1..Len(s)}

\* First row (in rowid order) among the rows the WHERE clause selects (hits),
\* as `SELECT ... LIMIT 1` over a rowid table scanned without an index
\* returns; 0 when fetchone() is None.
FirstIdx(rows, hits) ==
    IF \E i \in 1..Len(rows) : rows[i] \in hits
    THEN CHOOSE i \in 1..Len(rows) :
            rows[i] \in hits /\ \A j \in 1..(i - 1) : rows[j] \notin hits
    ELSE 0

\* ------------------------------------------------------------------- state
VARIABLES
    db,                         \* the committed SQLite database
    now,                        \* the wall clock, in hours
    invite_only,                \* AuthService._invite_only
    invite_required_for_login,  \* AuthService._invite_required_for_login
    invite_codes,               \* AuthService._invite_codes
    email_verify_ttl_hours,     \* AuthService._email_verify_ttl_hours
    calls,                      \* calls in flight, per concurrent caller
    unsupported_params_by_model, \* llm_service._OPENAI_UNSUPPORTED_PARAMS_BY_MODEL
    fallback,                   \* fallback invocations in flight, per thread
    facade                      \* llm_service.LLMService and the providers it created

vars == <<db, now, invite_only, invite_required_for_login, invite_codes,
          email_verify_ttl_hours, calls, unsupported_params_by_model, fallback,
          facade>>

\* The state of llm_service, which no operation of AuthService touches.
llm == <<unsupported_params_by_model, fallback, facade>>

config == <<invite_only, invite_required_for_login, invite_codes, email_verify_ttl_hours>>

Callers == {"c1", "c2"}

StaticCode == <<"S", "1">>

\* email_verify_ttl_hours values the service is constructed with
TtlChoices == {0, 1}

EmptyDb ==
    [users |-> <<>>, auth_identities |-> <<>>, user_profiles |-> <<>>,
     email_verifications |-> <<>>, login_events |-> <<>>,
     invites |-> <<>>, invite_usages |-> <<>>]

Idle == [pc |-> "idle", op |-> "none", arg |-> NULL, row |-> 0, at |-> 0, ret |-> NULL]

\* ---------------------------------------------------------------- outcomes
NoUser ==
    [id |-> NULL, primary_email |-> NULL, display_name |-> NULL, avatar_url |-> NULL,
     created_at |-> NULL, last_login_at |-> NULL]

Return(d, value) == [err |-> "", ret |-> value, user |-> NoUser, db |-> d]

Raise(d, kind) == [err |-> kind, ret |-> NULL, user |-> NoUser, db |-> d]

\* _row_to_user: the User value built from a fetched users row.
row_to_user(d, row) == [err |-> "", ret |-> row.id, user |-> row, db |-> d]

\* A mutation of ConnExit: the transaction is committed on an exception too.
ConnExitCommits(before, out) == out

\* sqlite3.Connection.__exit__: commit on return, rollback on exception.
ConnExit(before, out) == IF out.err # "" THEN [out EXCEPT !.db = before] ELSE out

\* ----------------------------------------------------------- invite gating
\* A mutation of has_any_db_invites: only rows not revoked count.
has_active_db_invites(d) == \E i \in 1..Len(d.invites) : d.invites[i].revoked_at = NULL

has_any_db_invites(d) == Len(d.invites) > 0

\* None when configured, else the SignupDisabledError it raises.
ensure_invites_configured(d) ==
    IF invite_codes # <<>> THEN ""
    ELSE IF has_any_db_invites(d) THEN ""
    ELSE "SignupDisabledError"

\* A mutation of email_allowed: the invite is not bound to its email.
email_allowed_any(allowed_email, email) == TRUE

\* The allowed_email check of _validate_db_invite.
email_allowed(allowed_email, email) ==
    Truthy(allowed_email) =>
        /\ Truthy(normalize_email(OrEmpty(email)))
        /\ normalize_email(OrEmpty(email)) = allowed_email

\* A mutation of invite_rejection: the usage cap is looked at first.
invite_rejection_cap_first(row, email) ==
    IF row.max_uses # NULL /\ row.used_count >= IntVal(row.max_uses)
    THEN "Invite code has reached its usage limit."
    ELSE IF Truthy(row.revoked_at) THEN "Invite code has been revoked."
    ELSE IF Truthy(row.expires_at) /\ FromIso(row.expires_at) < now
         THEN "Invite code has expired."
    ELSE IF Truthy(row.allowed_email) /\ ~Truthy(normalize_email(OrEmpty(email)))
         THEN "Email is required for this invite code."
    ELSE IF Truthy(row.allowed_email) /\ normalize_email(OrEmpty(email)) # row.allowed_email
         THEN "Invite code is not valid for this email."
    ELSE ""

\* The message of the InviteInvalidError _validate_db_invite raises for a
\* row it found, "" when it returns the row's id.
invite_rejection(row, email) ==
    IF Truthy(row.revoked_at) THEN "Invite code has been revoked."
    ELSE IF Truthy(row.expires_at) /\ FromIso(row.expires_at) < now
         THEN "Invite code has expired."
    ELSE IF Truthy(row.allowed_email) /\ ~Truthy(normalize_email(OrEmpty(email)))
         THEN "Email is required for this invite code."
    ELSE IF Truthy(row.allowed_email) /\ normalize_email(OrEmpty(email)) # row.allowed_email
         THEN "Invite code is not valid for this email."
    ELSE IF row.max_uses # NULL /\ row.used_count >= IntVal(row.max_uses)
         THEN "Invite code has reached its usage limit."
    ELSE ""

\* A mutation of validate_db_invite: a successful validation counts as a use.
validate_db_invite_counting(d, invite_code, email) ==
    LET code_hash == sha256_hex(invite_code)
        idx == FirstIdx(d.invites, {r \in Range(d.invites) : r.code_hash = code_hash})
    IN  IF idx = 0 THEN Raise(d, "InviteInvalidError")
        ELSE LET row == d.invites[idx] IN
             IF \/ Truthy(row.revoked_at)
                \/ Truthy(row.expires_at) /\ FromIso(row.expires_at) < now
                \/ ~email_allowed(row.allowed_email, email)
                \/ row.max_uses # NULL /\ row.used_count >= IntVal(row.max_uses)
             THEN Raise(d, "InviteInvalidError")
             ELSE Return([d EXCEPT !.invites[idx].used_count = @ + 1], row.id)

validate_db_invite(d, invite_code, email) ==
    LET code_hash == sha256_hex(invite_code)
        idx == FirstIdx(d.invites, {r \in Range(d.invites) : r.code_hash = code_hash})
    IN  IF idx = 0 THEN Raise(d, "InviteInvalidError")
        ELSE LET row == d.invites[idx] IN
             IF Truthy(row.revoked_at) THEN Raise(d, "InviteInvalidError")
             ELSE IF Truthy(row.expires_at) /\ FromIso(row.expires_at) < now
                  THEN Raise(d, "InviteInvalidError")
             ELSE IF ~email_allowed(row.allowed_email, email)
                  THEN Raise(d, "InviteInvalidError")
             ELSE IF row.max_uses # NULL /\ row.used_count >= IntVal(row.max_uses)
                  THEN Raise(d, "InviteInvalidError")
             ELSE Return(d, row.id)

validate_invite(d, invite_code, enforce, email) ==
    IF ~enforce THEN Return(d, NULL)
    ELSE LET code == Strip(OrEmpty(invite_code)) IN
         IF ~Truthy(code) THEN Raise(d, "InviteRequiredError")
         ELSE IF ensure_invites_configured(d) # ""
              THEN Raise(d, ensure_invites_configured(d))
         ELSE IF has_any_db_invites(d) THEN validate_db_invite(d, code, email)
         ELSE IF code \notin Range(invite_codes) THEN Raise(d, "InviteInvalidError")
         ELSE Return(d, NULL)

validate_invite_for_signup(d, invite_code, email) ==
    validate_invite(d, invite_code, invite_only, email)

\* A mutation of validate_invite_for_login: the gate is on whatever the flag.
validate_invite_always(d, invite_code, email) ==
    validate_invite(d, invite_code, TRUE, email)

validate_invite_for_login(d, invite_code, email) ==
    validate_invite(d, invite_code, invite_required_for_login, email)

\* ------------------------------------------------------------ SQL statements
\* (x or "").strip() or None
StripOrNone(s) == IF Truthy(Strip(OrEmpty(s))) THEN Strip(OrEmpty(s)) ELSE NULL

\* COALESCE(a, b)
Coalesce(a, b) == IF a # NULL THEN a ELSE b

UserIdx(d, user_id) == FirstIdx(d.users, {u \in Range(d.users) : u.id = user_id})

IdentityIdx(d, provider, provider_sub) ==
    FirstIdx(d.auth_identities,
             {ai \in Range(d.auth_identities) :
                 ai.provider = provider /\ ai.provider_sub = provider_sub})

\* A mutation of IdentityKeyFree: the table has no UNIQUE constraint.
IdentityKeyUnenforced(d, provider, provider_sub) == TRUE

\* UNIQUE(provider, provider_sub) of auth_identities
IdentityKeyFree(d, provider, provider_sub) == IdentityIdx(d, provider, provider_sub) = 0

InsertUser(d, row) == [d EXCEPT !.users = Append(@, row)]

InsertIdentity(d, row) == [d EXCEPT !.auth_identities = Append(@, row)]

\* INSERT OR IGNORE INTO user_profiles: user_id is the primary key.
\* A mutation of ensure_profile_row: a plain INSERT into a table without
\* the key on user_id.
ensure_profile_row_again(d, user_id) ==
    [d EXCEPT !.user_profiles =
        Append(@, [user_id |-> user_id, sender_profile_json |-> <<"{", "}">>,
                   preferences_json |-> <<"{", "}">>, updated_at |-> Iso(now)])]

ensure_profile_row(d, user_id) ==
    IF \E i \in 1..Len(d.user_profiles) : d.user_profiles[i].user_id = user_id
    THEN d
    ELSE [d EXCEPT !.user_profiles =
            Append(@, [user_id |-> user_id, sender_profile_json |-> <<"{", "}">>,
                       preferences_json |-> <<"{", "}">>, updated_at |-> Iso(now)])]

record_login_event(d, user_id, provider, email, success, reason) ==
    [d EXCEPT !.login_events =
        Append(@, [user_id |-> user_id, provider |-> provider, email |-> email,
                   success |-> success, reason |-> reason])]

\* Returns the working copy and the plaintext token; only the hash is stored.
create_email_verification(d, identity_id, email) ==
    LET n == Len(d.email_verifications) + 1
        token == Token(n)
    IN  [db |-> [d EXCEPT !.email_verifications =
                    Append(@, [id |-> Uuid("verification", n),
                               identity_id |-> identity_id,
                               token_hash |-> sha256_hex(token),
                               expires_at |-> Iso(now + email_verify_ttl_hours),
                               used_at |-> NULL])],
         token |-> token]

\* ------------------------------------------------------- password accounts
\* The INSERTs of create_password_user, which begin its write transaction.
\* UNIQUE(provider, provider_sub) is checked by the INSERT into
\* auth_identities, against the database as it is when the write begins.
signup_insert(d, email_norm, password, display_name) ==
    IF ~IdentityKeyFree(d, "password", email_norm) THEN Raise(d, "IntegrityError")
    ELSE LET user_id == Uuid("user", Len(d.users) + 1)
             identity_id == Uuid("identity", Len(d.auth_identities) + 1)
             d1 == InsertUser(d, [id |-> user_id, primary_email |-> email_norm,
                                  display_name |-> StripOrNone(display_name),
                                  avatar_url |-> NULL, created_at |-> Iso(now),
                                  last_login_at |-> NULL])
             d2 == InsertIdentity(d1, [id |-> identity_id, user_id |-> user_id,
                                       provider |-> "password",
                                       provider_sub |-> email_norm,
                                       email |-> email_norm,
                                       password_hash |-> generate_password_hash(password),
                                       email_verified |-> FALSE])
             d3 == ensure_profile_row(d2, user_id)
             v == create_email_verification(d3, identity_id, email_norm)
             d5 == record_login_event(v.db, user_id, "password", email_norm, TRUE, "signup")
         IN  Return(d5, v.token)

\* `SELECT 1 FROM auth_identities WHERE email = ? LIMIT 1`
EmailTaken(d, email_norm) ==
    \E i \in 1..Len(d.auth_identities) : d.auth_identities[i].email = email_norm

\* A mutation of create_password_user: a signup with a database invite
\* records the use itself.
create_password_user_consuming(d, email, password, display_name, invite_code) ==
    LET email_norm == normalize_email(email)
        gate == validate_invite_for_signup(d, invite_code, email_norm)
    IN
    IF ~Truthy(email_norm) THEN Raise(d, "AuthError")
    ELSE IF ~Truthy(password) \/ Len(password) < MinPasswordLen THEN Raise(d, "AuthError")
    ELSE IF gate.err # "" THEN Raise(d, gate.err)
    ELSE ConnExit(d,
        IF EmailTaken(d, email_norm) THEN Raise(d, "AuthError")
        ELSE LET out == signup_insert(d, email_norm, password, display_name)
                 idx == FirstIdx(d.invites, {r \in Range(d.invites) : r.id = gate.ret})
             IN  IF idx = 0 THEN out
                 ELSE [out EXCEPT !.db.invites[idx].used_count = @ + 1])

create_password_user(d, email, password, display_name, invite_code) ==
    LET email_norm == normalize_email(email) IN
    IF ~Truthy(email_norm) THEN Raise(d, "AuthError")
    ELSE IF ~Truthy(password) \/ Len(password) < MinPasswordLen THEN Raise(d, "AuthError")
    ELSE IF validate_invite_for_signup(d, invite_code, email_norm).err # ""
         THEN Raise(d, validate_invite_for_signup(d, invite_code, email_norm).err)
    ELSE ConnExit(d,
        IF EmailTaken(d, email_norm) THEN Raise(d, "AuthError")
        ELSE signup_insert(d, email_norm, password, display_name))

authenticate_password(d, email, password) ==
    LET email_norm == normalize_email(email) IN
    IF ~Truthy(email_norm) \/ ~Truthy(password) THEN Raise(d, "InvalidCredentialsError")
    ELSE ConnExit(d,
        LET idx == IdentityIdx(d, "password", email_norm) IN
        IF idx = 0
           \/ ~Truthy(d.auth_identities[idx].password_hash)
           \/ ~check_password_hash(d.auth_identities[idx].password_hash, password)
        THEN Raise(record_login_event(d, NULL, "password", email_norm, FALSE,
                                      "invalid_credentials"),
                   "InvalidCredentialsError")
        ELSE LET ai == d.auth_identities[idx]
                 uidx == UserIdx(d, ai.user_id)
                 row == d.users[uidx]
             IN  IF ~ai.email_verified
                 THEN Raise(record_login_event(d, ai.user_id, "password", email_norm, FALSE,
                                               "email_not_verified"),
                            "EmailNotVerifiedError")
                 ELSE LET d1 == [d EXCEPT !.users[uidx].last_login_at = Iso(now)]
                          d2 == record_login_event(d1, ai.user_id, "password", email_norm,
                                                   TRUE, "login")
                          d3 == ensure_profile_row(d2, ai.user_id)
                      IN  row_to_user(d3, row))

\* A mutation of resend_email_verification: the new token replaces the
\* earlier ones, which are marked used.
resend_invalidating(d, email) ==
    LET email_norm == normalize_email(email) IN
    IF ~Truthy(email_norm) THEN Raise(d, "AuthError")
    ELSE ConnExit(d,
        LET idx == IdentityIdx(d, "password", email_norm) IN
        IF idx = 0 THEN Raise(d, "AuthError")
        ELSE IF d.auth_identities[idx].email_verified THEN Raise(d, "AuthError")
        ELSE LET ai == d.auth_identities[idx]
                 d0 == [d EXCEPT !.email_verifications =
                           [k \in 1..Len(@) |->
                               IF @[k].identity_id = ai.id /\ @[k].used_at = NULL
                               THEN [@[k] EXCEPT !.used_at = Iso(now)] ELSE @[k]]]
                 v == create_email_verification(d0, ai.id, email_norm)
                 d2 == record_login_event(v.db, ai.user_id, "password", email_norm, TRUE,
                                          "resend_verification")
             IN  Return(d2, v.token))

resend_email_verification(d, email) ==
    LET email_norm == normalize_email(email) IN
    IF ~Truthy(email_norm) THEN Raise(d, "AuthError")
    ELSE ConnExit(d,
        LET idx == IdentityIdx(d, "password", email_norm) IN
        IF idx = 0 THEN Raise(d, "AuthError")
        ELSE IF d.auth_identities[idx].email_verified THEN Raise(d, "AuthError")
        ELSE LET ai == d.auth_identities[idx]
                 v == create_email_verification(d, ai.id, email_norm)
                 d2 == record_login_event(v.db, ai.user_id, "password", email_norm, TRUE,
                                          "resend_verification")
             IN  Return(d2, v.token))

\* The email_verifications row the token's hash selects (JOIN auth_identities).
VerificationIdx(d, token_hash) ==
    FirstIdx(d.email_verifications,
             {ev \in Range(d.email_verifications) :
                 /\ ev.token_hash = token_hash
                 /\ \E i \in 1..Len(d.auth_identities) :
                       d.auth_identities[i].id = ev.identity_id})

IdentityById(d, identity_id) ==
    FirstIdx(d.auth_identities, {ai \in Range(d.auth_identities) : ai.id = identity_id})

\* The writes of a successful verification, applied to the database d.
\* A mutation of apply_verification: the identity is verified, the token is
\* not marked used.
apply_verification_unmarked(d, verification_id, identity_id, user_id, at) ==
    ensure_profile_row([d EXCEPT !.auth_identities[IdentityById(d, identity_id)].email_verified = TRUE],
                       user_id)

apply_verification(d, verification_id, identity_id, user_id, at) ==
    LET vi == FirstIdx(d.email_verifications,
                       {ev \in Range(d.email_verifications) : ev.id = verification_id})
        ii == IdentityById(d, identity_id)
        d1 == [d EXCEPT !.auth_identities[ii].email_verified = TRUE]
        d2 == [d1 EXCEPT !.email_verifications[vi].used_at = Iso(at)]
    IN  ensure_profile_row(d2, user_id)

\* A mutation of verify_lookup: the used_at check is left out.
verify_lookup_reusable(d, token, at) ==
    LET tok == Strip(OrEmpty(token)) IN
    IF ~Truthy(tok) THEN 0
    ELSE LET idx == VerificationIdx(d, sha256_hex(tok)) IN
         IF idx = 0 THEN 0
         ELSE IF FromIso(d.email_verifications[idx].expires_at) < at THEN 0
         ELSE idx

\* A mutation of verify_lookup: the expiry check is left out.
verify_lookup_unexpiring(d, token, at) ==
    LET tok == Strip(OrEmpty(token)) IN
    IF ~Truthy(tok) THEN 0
    ELSE LET idx == VerificationIdx(d, sha256_hex(tok)) IN
         IF idx = 0 THEN 0
         ELSE IF Truthy(d.email_verifications[idx].used_at) THEN 0
         ELSE idx

\* The row the SELECT of verify_email_token finds and its checks accept, read
\* at clock reading `at`; 0 when the call returns None.
verify_lookup(d, token, at) ==
    LET tok == Strip(OrEmpty(token)) IN
    IF ~Truthy(tok) THEN 0
    ELSE LET idx == VerificationIdx(d, sha256_hex(tok)) IN
         IF idx = 0 THEN 0
         ELSE IF Truthy(d.email_verifications[idx].used_at) THEN 0
         ELSE IF FromIso(d.email_verifications[idx].expires_at) < at THEN 0
         ELSE idx

verify_email_token(d, token) ==
    LET idx == verify_lookup(d, token, now) IN
    IF idx = 0 THEN Return(d, NULL)
    ELSE LET row == d.email_verifications[idx]
             ai == d.auth_identities[IdentityById(d, row.identity_id)]
         IN  ConnExit(d, Return(apply_verification(d, row.id, ai.id, ai.user_id, now),
                                ai.user_id))

\* --------------------------------------------------------- Google accounts
\* The users row the link step selects: by primary_email first, then through
\* any identity whose email matches; 0 when there is none.
LinkUserIdx(d, email_norm) ==
    IF ~Truthy(email_norm) THEN 0
    ELSE IF FirstIdx(d.users, {u \in Range(d.users) : u.primary_email = email_norm}) # 0
         THEN FirstIdx(d.users, {u \in Range(d.users) : u.primary_email = email_norm})
    ELSE LET ii == FirstIdx(d.auth_identities,
                            {ai \in Range(d.auth_identities) :
                                ai.email = email_norm /\ UserIdx(d, ai.user_id) # 0})
         IN  IF ii = 0 THEN 0 ELSE UserIdx(d, d.auth_identities[ii].user_id)

\* A mutation of may_link: the verified flag of the Google login is ignored.
may_link_unverified(user_idx, email_verified) == user_idx # 0

\* `if user_row and (email_verified is True)`
may_link(user_idx, email_verified) == user_idx # 0 /\ email_verified = "True"

\* `_normalize_email(email or "") if email else None`
GoogleEmailNorm(email) == IF Truthy(email) THEN normalize_email(OrEmpty(email)) ELSE NULL

\* The writes of the link-and-login path for the users row read before.
google_link_write(d, lidx, google_sub, email_norm, display_name, avatar_url) ==
    IF ~IdentityKeyFree(d, "google", google_sub) THEN Raise(d, "IntegrityError")
    ELSE LET user_row == d.users[lidx]
             d1 == InsertIdentity(d, [id |-> Uuid("identity", Len(d.auth_identities) + 1),
                                      user_id |-> user_row.id, provider |-> "google",
                                      provider_sub |-> google_sub, email |-> email_norm,
                                      password_hash |-> NULL, email_verified |-> TRUE])
             d2 == [d1 EXCEPT !.users[lidx] =
                       [@ EXCEPT !.display_name = Coalesce(StripOrNone(display_name), @),
                                 !.avatar_url = Coalesce(avatar_url, @),
                                 !.last_login_at = Iso(now)]]
             d3 == ensure_profile_row(d2, user_row.id)
             d4 == record_login_event(d3, user_row.id, "google", email_norm, TRUE,
                                      "link_and_login")
         IN  row_to_user(d4, user_row)

\* The writes of the new-account path.
google_signup_write(d, google_sub, email_norm, display_name, avatar_url, email_verified) ==
    IF ~IdentityKeyFree(d, "google", google_sub) THEN Raise(d, "IntegrityError")
    ELSE LET user_id == Uuid("user", Len(d.users) + 1)
             d1 == InsertUser(d, [id |-> user_id, primary_email |-> email_norm,
                                  display_name |-> StripOrNone(display_name),
                                  avatar_url |-> avatar_url, created_at |-> Iso(now),
                                  last_login_at |-> Iso(now)])
             d2 == InsertIdentity(d1, [id |-> Uuid("identity", Len(d.auth_identities) + 1),
                                       user_id |-> user_id, provider |-> "google",
                                       provider_sub |-> google_sub, email |-> email_norm,
                                       password_hash |-> NULL,
                                       email_verified |-> (email_verified = "True")])
             d3 == ensure_profile_row(d2, user_id)
             d4 == record_login_event(d3, user_id, "google", email_norm, TRUE,
                                      "signup_and_login")
         IN  row_to_user(d4, d4.users[Len(d4.users)])

authenticate_google(d, google_sub, email, display_name, avatar_url, email_verified, invite_code) ==
    IF ~Truthy(google_sub) THEN Raise(d, "AuthError")
    ELSE LET email_norm == GoogleEmailNorm(email)
             idx == IdentityIdx(d, "google", google_sub)
             lidx == LinkUserIdx(d, email_norm)
         IN
    ConnExit(d,
        IF idx # 0
        THEN LET user_id == d.auth_identities[idx].user_id
                 uidx == UserIdx(d, user_id)
                 d1 == [d EXCEPT !.users[uidx] =
                           [@ EXCEPT !.primary_email = Coalesce(@, email_norm),
                                     !.display_name = Coalesce(StripOrNone(display_name), @),
                                     !.avatar_url = Coalesce(avatar_url, @),
                                     !.last_login_at = Iso(now)]]
                 d2 == ensure_profile_row(d1, user_id)
                 d3 == record_login_event(d2, user_id, "google", email_norm, TRUE, "login")
             IN  row_to_user(d3, d3.users[uidx])
        ELSE IF may_link(lidx, email_verified)
        THEN google_link_write(d, lidx, google_sub, email_norm, display_name, avatar_url)
        ELSE IF validate_invite_for_signup(d, invite_code, email_norm).err # ""
        THEN Raise(d, validate_invite_for_signup(d, invite_code, email_norm).err)
        ELSE google_signup_write(d, google_sub, email_norm, display_name, avatar_url,
                                 email_verified))

\* ------------------------------------------------------------------ invites
InviteIdx(d, invite_id) == FirstIdx(d.invites, {r \in Range(d.invites) : r.id = invite_id})

\* A datetime argument is <<"dt", t, tz>>; a naive one is read as UTC.
DatetimeToIso(dt) == IF dt = NULL THEN NULL ELSE Iso(dt[2])

\* The first generated code whose hash is not yet in invites (code_hash is
\* UNIQUE: a colliding INSERT raises IntegrityError and the loop continues);
\* NULL when every attempt collided.
RECURSIVE FirstFreeCode(_, _)
FirstFreeCode(d, draws) ==
    IF draws = <<>> THEN NULL
    ELSE IF FirstIdx(d.invites,
                     {r \in Range(d.invites) : r.code_hash = sha256_hex(Head(draws))}) = 0
         THEN Head(draws)
    ELSE FirstFreeCode(d, Tail(draws))

\* draws: the codes _generate_invite_code returns to the attempts of the loop.
create_invite(d, allowed_email, expires_at, max_uses, draws) ==
    LET email_norm == normalize_email(allowed_email)
        code == FirstFreeCode(d, draws)
    IN  IF ~Truthy(email_norm) THEN Raise(d, "AuthError")
        ELSE IF code = NULL THEN Raise(d, "AuthError")
        ELSE Return([d EXCEPT !.invites =
                        Append(@, [id |-> Uuid("invite", Len(d.invites) + 1),
                                   code_hash |-> sha256_hex(code),
                                   allowed_email |-> email_norm,
                                   expires_at |-> DatetimeToIso(expires_at),
                                   revoked_at |-> NULL,
                                   max_uses |-> max_uses,
                                   used_count |-> 0])],
                    code)

\* A mutation of record_invite_use: the usage row is written, the counter
\* is left alone.
record_invite_use_uncounted(d, invite_id, user_id, email, provider) ==
    IF ~Truthy(invite_id) THEN Return(d, NULL)
    ELSE IF InviteIdx(d, invite_id) = 0 \/ (user_id # NULL /\ UserIdx(d, user_id) = 0)
         THEN Raise(d, "IntegrityError")
    ELSE Return([d EXCEPT !.invite_usages =
                    Append(@, [invite_id |-> invite_id, user_id |-> user_id,
                               email |-> IF Truthy(email)
                                         THEN normalize_email(OrEmpty(email)) ELSE NULL,
                               provider |-> provider])], NULL)

record_invite_use(d, invite_id, user_id, email, provider) ==
    IF ~Truthy(invite_id) THEN Return(d, NULL)
    ELSE ConnExit(d,
        LET idx == InviteIdx(d, invite_id)
            d1 == IF idx = 0 THEN d
                  ELSE [d EXCEPT !.invites[idx].used_count = @ + 1]
            d2 == [d1 EXCEPT !.invite_usages =
                      Append(@, [invite_id |-> invite_id, user_id |-> user_id,
                                 email |-> IF Truthy(email)
                                           THEN normalize_email(OrEmpty(email)) ELSE NULL,
                                 provider |-> provider])]
        IN  \* FOREIGN KEY(invite_id), FOREIGN KEY(user_id) with foreign_keys = ON
            IF idx = 0 \/ (user_id # NULL /\ UserIdx(d, user_id) = 0)
            THEN Raise(d2, "IntegrityError")
            ELSE Return(d2, NULL))

Bool(b) == IF b THEN <<"True">> ELSE <<"False">>

\* A mutation of revoke_invite_by_id: the update lacks `revoked_at IS NULL`.
revoke_invite_by_id_again(d, invite_id) ==
    LET id == Strip(OrEmpty(invite_id)) IN
    IF ~Truthy(id) THEN Return(d, Bool(FALSE))
    ELSE LET idx == InviteIdx(d, id) IN
         IF idx # 0
         THEN Return([d EXCEPT !.invites[idx].revoked_at = Iso(now)], Bool(TRUE))
         ELSE Return(d, Bool(FALSE))

revoke_invite_by_id(d, invite_id) ==
    LET id == Strip(OrEmpty(invite_id)) IN
    IF ~Truthy(id) THEN Return(d, Bool(FALSE))
    ELSE LET idx == InviteIdx(d, id) IN
         IF idx # 0 /\ d.invites[idx].revoked_at = NULL
         THEN Return([d EXCEPT !.invites[idx].revoked_at = Iso(now)], Bool(TRUE))
         ELSE Return(d, Bool(FALSE))

revoke_invites_for_email(d, email) ==
    LET email_norm == normalize_email(email)
        hit == {i \in 1..Len(d.invites) :
                    d.invites[i].allowed_email = email_norm /\ d.invites[i].revoked_at = NULL}
    IN  IF ~Truthy(email_norm) THEN Return(d, SqlInt(0))
        ELSE Return([d EXCEPT !.invites =
                        [i \in 1..Len(d.invites) |->
                            IF i \in hit THEN [d.invites[i] EXCEPT !.revoked_at = Iso(now)]
                            ELSE d.invites[i]]],
                    SqlInt(Cardinality(hit)))

\* A mutation of invite_record: the whole row, code_hash included.
invite_row_whole(r) == r

\* The dict list_invites builds from a row (label and created_at are not
\* modelled).
invite_record(r) ==
    [id |-> r.id, allowed_email |-> r.allowed_email, expires_at |-> r.expires_at,
     revoked_at |-> r.revoked_at, max_uses |-> r.max_uses, used_count |-> r.used_count]

\* ORDER BY created_at DESC: rows are inserted in time order, so the newest
\* row comes first.
list_invites(d, email, include_revoked) ==
    LET email_norm == IF Truthy(email) THEN normalize_email(OrEmpty(email)) ELSE NULL
        kept == SelectSeq(d.invites,
                    LAMBDA r : /\ Truthy(email_norm) => r.allowed_email = email_norm
                               /\ ~include_revoked => r.revoked_at = NULL)
    IN  Return(d, [k \in 1..Len(kept) |-> invite_record(kept[Len(kept) + 1 - k])])

\* ----------------------------------------------------------- user profiles
\* A dict is the sequence of its keys; json.dumps / json.loads of it.
json_dumps(v) == <<"{">> \o v \o <<"}">>

json_loads(text) == SubSeq(text, 2, Len(text) - 1)

\* x or None
OrNone(v) == IF Truthy(v) THEN v ELSE NULL

ProfileIdx(d, user_id) ==
    FirstIdx(d.user_profiles, {r \in Range(d.user_profiles) : r.user_id = user_id})

get_user_profile(d, user_id) ==
    IF ~Truthy(user_id) THEN Return(d, <<NULL, NULL>>)
    ELSE ConnExit(d,
        \* FOREIGN KEY(user_id) REFERENCES users(id)
        IF ProfileIdx(d, user_id) = 0 /\ UserIdx(d, user_id) = 0
        THEN Raise(d, "IntegrityError")
        ELSE LET d1 == ensure_profile_row(d, user_id)
                 row == d1.user_profiles[ProfileIdx(d1, user_id)]
             IN  Return(d1, <<OrNone(json_loads(row.sender_profile_json)),
                              OrNone(json_loads(row.preferences_json)), row.updated_at>>))

\* A mutation of update_user_profile: one UPDATE writes both payloads, an
\* absent one as the empty dict.
update_user_profile_both(d, user_id, sender_profile, preferences) ==
    IF ~Truthy(user_id) THEN Raise(d, "AuthError")
    ELSE ConnExit(d,
        IF ProfileIdx(d, user_id) = 0 /\ UserIdx(d, user_id) = 0
        THEN Raise(d, "IntegrityError")
        ELSE LET d1 == ensure_profile_row(d, user_id)
                 pidx == ProfileIdx(d1, user_id)
             IN  Return([d1 EXCEPT !.user_profiles[pidx] =
                            [@ EXCEPT !.sender_profile_json =
                                          json_dumps(IF sender_profile = NULL THEN <<>>
                                                     ELSE sender_profile),
                                      !.preferences_json =
                                          json_dumps(IF preferences = NULL THEN <<>>
                                                     ELSE preferences),
                                      !.updated_at = Iso(now)]],
                        NULL))

update_user_profile(d, user_id, sender_profile, preferences) ==
    IF ~Truthy(user_id) THEN Raise(d, "AuthError")
    ELSE ConnExit(d,
        IF ProfileIdx(d, user_id) = 0 /\ UserIdx(d, user_id) = 0
        THEN Raise(d, "IntegrityError")
        ELSE LET d1 == ensure_profile_row(d, user_id)
                 pidx == ProfileIdx(d1, user_id)
                 d2 == IF sender_profile # NULL
                       THEN [d1 EXCEPT !.user_profiles[pidx] =
                                [@ EXCEPT !.sender_profile_json = json_dumps(sender_profile),
                                          !.updated_at = Iso(now)]]
                       ELSE d1
                 d3 == IF preferences # NULL
                       THEN [d2 EXCEPT !.user_profiles[pidx] =
                                [@ EXCEPT !.preferences_json = json_dumps(preferences),
                                          !.updated_at = Iso(now)]]
                       ELSE d2
             IN  Return(d3, NULL))

\* ------------------------------------------------- OpenAI model parameters
\* openai_compat.py.  A model identifier is a sequence of characters; a set
\* of parameters is a set of their names.
startswith(s, prefix) == Len(s) >= Len(prefix) /\ SubSeq(s, 1, Len(prefix)) = prefix

\* Python `sub in s`
contains(s, sub) ==
    \E i \in 1..(Len(s) - Len(sub) + 1) : SubSeq(s, i, i + Len(sub) - 1) = sub

Gpt5 == <<"g", "p", "t", "-", "5">>

Gpt51 == Gpt5 \o <<".", "1">>

Gpt52 == Gpt5 \o <<".", "2">>

UNSUPPORTED_SAMPLING_PARAMS == {"temperature", "top_p", "logprobs"}

UNSUPPORTED_PENALTY_PARAMS == {"frequency_penalty", "presence_penalty"}

\* A mutation of is_gpt5_base_model: the dotted sub-families are not set apart.
is_gpt5_prefixed(model) == startswith(Strip(OrEmpty(model)), Gpt5)

is_gpt5_base_model(model) ==
    LET m == Strip(OrEmpty(model)) IN
    IF ~startswith(m, Gpt5) THEN FALSE
    ELSE ~(startswith(m, Gpt51) \/ startswith(m, Gpt52))

is_gpt51_or_gpt52_restricted_variant(model) ==
    LET m == Strip(OrEmpty(model)) IN
    IF ~(startswith(m, Gpt51) \/ startswith(m, Gpt52)) THEN FALSE
    ELSE contains(Lower(m), <<"t", "h", "i", "n", "k", "i", "n", "g">>)
            \/ contains(Lower(m), <<"p", "r", "o">>)

is_o_series_model(model) ==
    LET m == Strip(OrEmpty(model)) IN
    startswith(m, <<"o", "1">>) \/ startswith(m, <<"o", "3">>) \/ startswith(m, <<"o", "4">>)

unsupported_openai_chat_params(model, reasoning_effort) ==
    LET m == Strip(OrEmpty(model)) IN
    IF ~Truthy(m) THEN {}
    ELSE IF is_gpt5_base_model(m) THEN UNSUPPORTED_SAMPLING_PARAMS
    ELSE IF (startswith(m, Gpt51) \/ startswith(m, Gpt52))
            /\ is_gpt51_or_gpt52_restricted_variant(m)
         THEN UNSUPPORTED_SAMPLING_PARAMS
    ELSE IF (startswith(m, Gpt51) \/ startswith(m, Gpt52))
            /\ reasoning_effort # NULL /\ reasoning_effort # <<"n", "o", "n", "e">>
         THEN UNSUPPORTED_SAMPLING_PARAMS
    ELSE IF is_o_series_model(m)
         THEN UNSUPPORTED_SAMPLING_PARAMS \cup UNSUPPORTED_PENALTY_PARAMS
    ELSE {}

\* ------------------------------------------------ OpenAI call with fallback
\* llm_service.py.  A request (the keyword arguments of one
\* chat.completions.create call) is the set of its parameter names.  A
\* provider error is what _extract_openai_error_info finds in it: `param`
\* (NULL, or the dot-separated segments of the name), `code`, `message`
\* (NULL when the error carries none, <<>> when it is empty, else the
\* segments of the name quoted after "Unsupported value: ") and `text`,
\* the same reading of str(exc).
ModelIds == {"m1", "m2", ""}

\* The parameters the fallback never drops.
Required == {"model", "messages"}

NoError == [param |-> NULL, code |-> "", message |-> NULL, text |-> NULL]

\* The provider's answer to a request it accepts.
Accepted == [NoError EXCEPT !.code = "ok"]

\* A mutation of get_openai_unsupported_param: the code is not looked at.
get_param_any_code(exc) ==
    IF exc.param # NULL THEN <<Head(exc.param)>>
    ELSE LET message == IF exc.message = <<>> THEN exc.text ELSE exc.message IN
         IF message # NULL /\ message # <<>> THEN <<Head(message)>> ELSE <<>>

\* <<>> for None, else <<name>>.  str(None) is "None", so str(exc) is read
\* only when the message is the empty string.
get_openai_unsupported_param(exc) ==
    IF exc.param # NULL /\ exc.code \in {"unsupported_value", "unsupported_parameter"}
    THEN <<Head(exc.param)>>
    ELSE LET message == IF exc.message = <<>> THEN exc.text ELSE exc.message IN
         IF message # NULL /\ message # <<>> THEN <<Head(message)>> ELSE <<>>

\* One invocation of _openai_chat_completions_create_with_fallback by one
\* thread: its locals (model, attempt_kwargs, the iterator over
\* known_unsupported as the set it has yet to visit and the size it saw,
\* _attempt), how it ended, and the provider's log of this invocation
\* (calls made, first and last request, the last error it raised).
FallbackIdle ==
    [pc |-> "idle", model |-> "", create_kwargs |-> {}, attempt_kwargs |-> {},
     unvisited |-> {}, iter_size |-> 0, attempt |-> 0, error |-> NoError,
     calls_made |-> 0, first |-> {}, last |-> {}, rejection |-> NoError]

\* A provider object: its class and which object of the class it is.
\* NoInstance is None.
NoInstance == [kind |-> "None", id |-> 0]

GeminiService(n) == [kind |-> "GeminiService", id |-> n]

\* The module as imported: nothing learned, no invocation in flight,
\* LLMService._instance None and no provider created.
Imported ==
    /\ unsupported_params_by_model = [m \in ModelIds |-> {}]
    /\ fallback = [c \in Callers |-> FallbackIdle]
    /\ facade = [instance |-> NoInstance, created |-> 0]

\* Lines 89-93: copy the arguments and fetch the set learned for the model;
\* an empty or missing set skips the loop of lines 94-95.
fallback_begin(model, create_kwargs) ==
    LET known == unsupported_params_by_model[model] IN
    [FallbackIdle EXCEPT !.pc = IF known = {} THEN "attempt" ELSE "strip",
                         !.model = model, !.create_kwargs = create_kwargs,
                         !.attempt_kwargs = create_kwargs,
                         !.unvisited = known, !.iter_size = Cardinality(known)]

\* One step of `for param in known_unsupported` (lines 94-95): the set
\* iterator raises RuntimeError when the set has changed size since the
\* loop began, ends the loop when nothing is left, else yields a member,
\* which is popped from the request.
fallback_strip(f, param) ==
    IF Cardinality(unsupported_params_by_model[f.model]) # f.iter_size
    THEN [f EXCEPT !.pc = "raised", !.error = [NoError EXCEPT !.code = "RuntimeError"]]
    ELSE IF f.unvisited = {} THEN [f EXCEPT !.pc = "attempt"]
    ELSE [f EXCEPT !.attempt_kwargs = @ \ {param}, !.unvisited = @ \ {param}]

\* A mutation of retries: the loop has no last round.
retries_forever(f, exc) ==
    LET unsupported_param == get_openai_unsupported_param(exc) IN
    /\ unsupported_param # <<>> /\ unsupported_param[1] # ""
    /\ unsupported_param[1] \in f.attempt_kwargs
    /\ unsupported_param[1] \notin Required

\* Whether the handler of lines 101-107 drops the parameter and retries.
retries(f, exc) ==
    LET unsupported_param == get_openai_unsupported_param(exc) IN
    /\ f.attempt < FallbackAttempts
    /\ unsupported_param # <<>> /\ unsupported_param[1] # ""
    /\ unsupported_param[1] \in f.attempt_kwargs
    /\ unsupported_param[1] \notin Required

\* A mutation of fallback_attempt: the retry sends the same request again.
fallback_attempt_again(f, answer) ==
    LET sent == [f EXCEPT !.calls_made = @ + 1, !.last = f.attempt_kwargs,
                          !.first = IF f.calls_made = 0 THEN f.attempt_kwargs ELSE @,
                          !.rejection = IF answer = Accepted THEN @ ELSE answer]
    IN  IF answer = Accepted THEN [sent EXCEPT !.pc = "returned"]
        ELSE IF retries(f, answer) THEN [sent EXCEPT !.attempt = @ + 1]
        ELSE [sent EXCEPT !.pc = "raised", !.error = answer]

\* One provider call (line 99, or line 110 after the loop) and what follows
\* its answer: a response returns; an error is handled by lines 101-108 inside
\* the loop and propagates from line 110.
fallback_attempt(f, answer) ==
    LET sent == [f EXCEPT !.calls_made = @ + 1, !.last = f.attempt_kwargs,
                          !.first = IF f.calls_made = 0 THEN f.attempt_kwargs ELSE @,
                          !.rejection = IF answer = Accepted THEN @ ELSE answer]
    IN  IF answer = Accepted THEN [sent EXCEPT !.pc = "returned"]
        ELSE IF retries(f, answer)
             THEN [sent EXCEPT !.attempt_kwargs = @ \ {get_openai_unsupported_param(answer)[1]},
                               !.attempt = @ + 1]
        ELSE [sent EXCEPT !.pc = "raised", !.error = answer]

\* A mutation of learn: nothing is remembered.
learn_nothing(f, answer) == unsupported_params_by_model

\* Line 105: the dropped parameter is remembered for a non-empty model.
learn(f, answer) ==
    IF answer # Accepted /\ retries(f, answer) /\ f.model # ""
    THEN [unsupported_params_by_model EXCEPT
             ![f.model] = @ \cup {get_openai_unsupported_param(answer)[1]}]
    ELSE unsupported_params_by_model

\* -------------------------------------------------------- strict JSON text
\* llm_service.py.  A text is a sequence of tokens: "{" and "}", "k" (a
\* key and its colon), "0" (the scalar 0), " " (white space), "F" (a fence of
\* three backquotes) and "x" (any other prose).
Tokens == {"{", "}", "k", "0", " ", "F", "x"}

\* The JSON values: a scalar, an empty object, an object of one member.
RECURSIVE IsValue(_)
IsValue(s) ==
    \/ s = <<"0">>
    \/ /\ Len(s) >= 2 /\ s[1] = "{" /\ s[Len(s)] = "}"
       /\ \/ Len(s) = 2
          \/ Len(s) >= 4 /\ s[2] = "k" /\ IsValue(SubSeq(s, 3, Len(s) - 1))

IsNotSpace(c) == c # " "

\* Whether json.loads(text) returns: white space apart, the text is one value.
is_json(text) == IsValue(SelectSeq(text, IsNotSpace))

\* The position of the k-th fence of the text.
FenceAt(text, k) ==
    CHOOSE i \in 1..Len(text) :
        text[i] = "F" /\ Cardinality({j \in 1..i : text[j] = "F"}) = k

\* re.findall of the fenced-block pattern, each match stripped: what stands
\* between the first and second fence, the third and fourth, and so on.
fenced_candidates(text) ==
    [k \in 1..(Cardinality({j \in 1..Len(text) : text[j] = "F"}) \div 2) |->
        Strip(SubSeq(text, FenceAt(text, 2 * k - 1) + 1, FenceAt(text, 2 * k) - 1))]

\* depth after the character at i, counted from brace_start
depth(text, brace_start, i) ==
    Cardinality({j \in brace_start..i : text[j] = "{"})
        - Cardinality({j \in brace_start..i : text[j] = "}"})

\* The scan of lines 125-139: the ends i of candidates text[brace_start : i + 1]
\* that parse.
brace_ends(text, brace_start) ==
    {i \in brace_start..Len(text) :
        /\ text[i] = "}"
        /\ depth(text, brace_start, i) = 0
        /\ is_json(SubSeq(text, brace_start, i))}

extract_json_from_text(text) ==
    LET matches == fenced_candidates(text)
        parsed == {k \in 1..Len(matches) : is_json(matches[k])}
        braces == {i \in 1..Len(text) : text[i] = "{"}
    IN  IF parsed # {} THEN matches[CHOOSE k \in parsed : \A j \in parsed : k <= j]
        ELSE IF braces = {} THEN text
        ELSE LET brace_start == CHOOSE i \in braces : \A j \in braces : i <= j
                 ends == brace_ends(text, brace_start)
             IN  IF ends # {}
                 THEN SubSeq(text, brace_start, CHOOSE i \in ends : \A j \in ends : i <= j)
                 ELSE text

\* [err, ret]: the text returned, or the exception raised.
ensure_strict_json(text) ==
    LET cleaned == Strip(OrEmpty(text)) IN
    IF ~Truthy(cleaned) THEN [err |-> "", ret |-> cleaned]
    ELSE IF is_json(cleaned) THEN [err |-> "", ret |-> cleaned]
    ELSE LET extracted == extract_json_from_text(cleaned) IN
         IF is_json(extracted) THEN [err |-> "", ret |-> extracted]
         ELSE [err |-> "JSONDecodeError", ret |-> NULL]

\* OpenAIService.call, given the content of the provider's response (NULL
\* for None): every exception is raised as LLMServiceError.
openai_call(content, json_mode) ==
    IF json_mode
    THEN IF ensure_strict_json(OrEmpty(content)).err # ""
         THEN [err |-> "LLMServiceError", ret |-> NULL]
         ELSE ensure_strict_json(OrEmpty(content))
    ELSE [err |-> "", ret |-> OrEmpty(content)]

\* ------------------------------------------------------------- LLM facade
\* llm_service.LLMService.  Each operation gives the class state after it
\* and what it returns: for get_instance the provider, for call_llm and
\* call_llm_with_search the provider and the method that received the call.
\* A mutation of get_instance: a default provider is created at every call.
get_instance_fresh(f) ==
    [facade |-> [instance |-> GeminiService(f.created + 1), created |-> f.created + 1],
     service |-> GeminiService(f.created + 1), method |-> ""]

get_instance(f) ==
    IF f.instance = NoInstance
    THEN [facade |-> [instance |-> GeminiService(f.created + 1), created |-> f.created + 1],
          service |-> GeminiService(f.created + 1), method |-> ""]
    ELSE [facade |-> f, service |-> f.instance, method |-> ""]

set_instance(f, service) ==
    [facade |-> [f EXCEPT !.instance = service], service |-> NoInstance, method |-> ""]

reset(f) ==
    [facade |-> [f EXCEPT !.instance = NoInstance], service |-> NoInstance, method |-> ""]

call_llm(f) == [get_instance(f) EXCEPT !.method = "call"]

call_llm_with_search(f) == [get_instance(f) EXCEPT !.method = "call_with_search"]

\* ------------------------------------------------------------------ inputs
EmailInputs == {<<"a">>, <<" ", "A">>, <<"b">>}

Password1 == <<"p", "a", "s", "s", "w", "o", "r", "d">>

Password2 == <<"h", "u", "n", "t", "e", "r", "2", "2">>

ShortPassword == <<"p", "a", "s", "s">>

GoogleSubs == {<<"g", "1">>, <<"g", "2">>}

VerifiedInputs == {"True", "False", "None"}

IssuedTokens(d) == {Token(n) : n \in 1..Len(d.email_verifications)}

IssuedCodes(d) == {InviteCode(n) : n \in 1..Len(d.invites)}

Bounded(d) ==
    /\ Len(d.users) <= MaxUsers
    /\ Len(d.login_events) <= MaxEvents
    /\ Len(d.email_verifications) <= MaxVerifications
    /\ Len(d.invites) <= MaxInvites
    /\ Len(d.invite_usages) <= MaxUsages

\* ------------------------------------------------------------- construction
\* AuthService.__init__ followed by _init_db on a fresh database file.  The
\* configuration is fixed at construction; INVITE_REQUIRED_FOR_LOGIN
\* defaults to INVITE_ONLY (config.py).
Constructed ==
    /\ db = EmptyDb
    /\ now = 0
    /\ invite_only \in BOOLEAN
    /\ invite_required_for_login \in BOOLEAN
    /\ invite_codes \in {<<>>, <<StaticCode>>}
    /\ email_verify_ttl_hours \in TtlChoices
    /\ calls = [c \in Callers |-> Idle]
    /\ Imported

\* A whole call by one caller: the handler runs to completion on the
\* committed database, which becomes the database its outcome carries.
Complete(out) ==
    /\ Bounded(out.db)
    /\ db' = out.db
    /\ UNCHANGED <<now, config, calls, llm>>

Tick ==
    /\ now < MaxTime
    /\ now' = now + 1
    /\ UNCHANGED <<db, config, calls, llm>>

UserIds(d) == {d.users[i].id : i \in 1..Len(d.users)}

InviteIds(d) == {d.invites[i].id : i \in 1..Len(d.invites)}

ExpiryInputs == {NULL, <<"dt", 0, "naive">>, <<"dt", 1, "utc">>}

MaxUsesInputs == {NULL, SqlInt(1), SqlInt(2)}

DictInputs == {NULL, <<>>, <<"k">>}

\* The codes the attempts of create_invite draw: `collisions` of them repeat
\* the code issued last, the rest are new.
Draws(d, collisions) ==
    [k \in 1..InviteCodeAttempts |->
        IF k <= collisions THEN InviteCode(Len(d.invites))
        ELSE InviteCode(Len(d.invites) + 1)]

CollisionInputs(d) == IF Len(d.invites) = 0 THEN {0} ELSE {0, 1, InviteCodeAttempts}

\* Each operation is an action over the inputs it is called with; the sets
\* of inputs are chosen per specification.
CreatePasswordUserOf(emails, invite_codes_in) ==
    \E email \in emails, password \in {Password1, ShortPassword},
       invite_code \in invite_codes_in :
        Complete(create_password_user(db, email, password, NULL, invite_code))

AuthenticatePasswordOf(emails, passwords) ==
    \E email \in emails, password \in passwords :
        Complete(authenticate_password(db, email, password))

ResendEmailVerificationOf(emails) ==
    \E email \in emails :
        Complete(resend_email_verification(db, email))

VerifyEmailTokenOf(tokens) ==
    \E token \in tokens :
        Complete(verify_email_token(db, token))

AuthenticateGoogleOf(subs, emails, verified, invite_codes_in) ==
    \E google_sub \in subs, email \in emails, email_verified \in verified,
       invite_code \in invite_codes_in :
        Complete(authenticate_google(db, google_sub, email, NULL, NULL, email_verified,
                                     invite_code))

CreateInviteOf(emails, expiries, max_uses_in, collisions_in) ==
    \E allowed_email \in emails, expires_at \in expiries, max_uses \in max_uses_in,
       collisions \in collisions_in :
        Complete(create_invite(db, allowed_email, expires_at, max_uses,
                               Draws(db, collisions)))

ValidateInviteOf(gate, invite_codes_in, emails) ==
    \E invite_code \in invite_codes_in, email \in emails :
        Complete(IF gate = "signup"
                 THEN validate_invite_for_signup(db, invite_code, email)
                 ELSE validate_invite_for_login(db, invite_code, email))

RecordInviteUseOf(invite_ids, user_ids, emails) ==
    \E invite_id \in invite_ids, user_id \in user_ids, email \in emails :
        Complete(record_invite_use(db, invite_id, user_id, email, "password"))

RevokeInviteByIdOf(invite_ids) ==
    \E invite_id \in invite_ids :
        Complete(revoke_invite_by_id(db, invite_id))

RevokeInvitesForEmailOf(emails) ==
    \E email \in emails :
        Complete(revoke_invites_for_email(db, email))

GetUserProfileOf(user_ids) ==
    \E user_id \in user_ids :
        Complete(get_user_profile(db, user_id))

UpdateUserProfileOf(user_ids, dicts) ==
    \E user_id \in user_ids, sender_profile \in dicts, preferences \in dicts :
        Complete(update_user_profile(db, user_id, sender_profile, preferences))

\* ------------------------------------------------ calls with the full inputs
CreatePasswordUser ==
    CreatePasswordUserOf(EmailInputs \cup {<<>>}, {NULL, StaticCode} \cup IssuedCodes(db))

AuthenticatePassword ==
    AuthenticatePasswordOf(EmailInputs, {Password1, Password2, <<>>})

ResendEmailVerification == ResendEmailVerificationOf(EmailInputs)

VerifyEmailToken ==
    VerifyEmailTokenOf(IssuedTokens(db) \cup {<<>>, <<"b", "o", "g", "u", "s">>})

AuthenticateGoogle ==
    AuthenticateGoogleOf(GoogleSubs \cup {<<>>}, EmailInputs \cup {NULL}, VerifiedInputs,
                         {NULL, StaticCode} \cup IssuedCodes(db))

CreateInvite ==
    CreateInviteOf({<<" ", "A">>, <<"b">>, <<>>}, ExpiryInputs, MaxUsesInputs,
                   CollisionInputs(db))

ValidateInviteForSignup ==
    ValidateInviteOf("signup", {NULL, <<" ">>, StaticCode} \cup IssuedCodes(db),
                     EmailInputs \cup {NULL})

ValidateInviteForLogin ==
    ValidateInviteOf("login", {NULL, <<" ">>, StaticCode} \cup IssuedCodes(db),
                     EmailInputs \cup {NULL})

RecordInviteUse ==
    RecordInviteUseOf(InviteIds(db) \cup {NULL, Uuid("invite", 0)},
                      UserIds(db) \cup {NULL, Uuid("user", 0)}, {<<" ", "A">>})

RevokeInviteById == RevokeInviteByIdOf(InviteIds(db) \cup {NULL, Uuid("invite", 0)})

RevokeInvitesForEmail == RevokeInvitesForEmailOf(EmailInputs \cup {<<>>})

\* ------------------------------------------------------ the whole service
\* Every public operation that writes, one call at a time, for one email
\* address and one Google subject, on a service that gates signup and login
\* by database invites only.  Invite uses are recorded without a user id or
\* with the id of no user.
Init ==
    /\ Constructed
    /\ invite_only
    /\ invite_required_for_login
    /\ invite_codes = <<>>
    /\ email_verify_ttl_hours = 1

SvcCreateInvite == CreateInviteOf({<<" ", "A">>}, {NULL}, {SqlInt(1)}, {0})

SvcRecordInviteUse ==
    RecordInviteUseOf(InviteIds(db) \cup {Uuid("invite", 0)},
                      {NULL, Uuid("user", 0)}, {<<" ", "A">>})

SvcRevokeInviteById == RevokeInviteByIdOf(InviteIds(db))

SvcRevokeInvitesForEmail == RevokeInvitesForEmailOf({<<"a">>})

SvcCreatePasswordUser == CreatePasswordUserOf({<<" ", "A">>}, {NULL} \cup IssuedCodes(db))

SvcAuthenticatePassword == AuthenticatePasswordOf({<<"a">>}, {Password1, Password2})

SvcResendEmailVerification == ResendEmailVerificationOf({<<"a">>})

SvcVerifyEmailToken == VerifyEmailTokenOf(IssuedTokens(db))

SvcAuthenticateGoogle ==
    AuthenticateGoogleOf({<<"g", "1">>}, {<<"a">>}, {"True", "False"},
                         {NULL} \cup IssuedCodes(db))

SvcGetUserProfile == GetUserProfileOf(UserIds(db) \cup {Uuid("user", 0)})

SvcUpdateUserProfile == UpdateUserProfileOf(UserIds(db) \cup {Uuid("user", 0)}, {<<"k">>})

Next ==
    \/ SvcCreateInvite
    \/ SvcRecordInviteUse
    \/ SvcRevokeInviteById
    \/ SvcRevokeInvitesForEmail
    \/ SvcCreatePasswordUser
    \/ SvcAuthenticatePassword
    \/ SvcResendEmailVerification
    \/ SvcVerifyEmailToken
    \/ SvcAuthenticateGoogle
    \/ SvcGetUserProfile
    \/ SvcUpdateUserProfile

Spec == Init /\ [][Next]_vars

\* ------------------------------------------------- password account life cycle
InitPassword ==
    /\ Constructed
    /\ invite_required_for_login = invite_only
    /\ invite_only => invite_codes # <<>>

NextPassword ==
    \/ Tick
    \/ CreatePasswordUser
    \/ AuthenticatePassword
    \/ ResendEmailVerification
    \/ VerifyEmailToken

SpecPassword == InitPassword /\ [][NextPassword]_vars

\* ------------------------------------------------------ Google sign-in
InitGoogle ==
    /\ Constructed
    /\ invite_required_for_login = invite_only
    /\ invite_only => invite_codes # <<>>
    /\ email_verify_ttl_hours = 1

NextGoogle ==
    \/ CreatePasswordUser
    \/ VerifyEmailToken
    \/ AuthenticateGoogle

SpecGoogle == InitGoogle /\ [][NextGoogle]_vars

\* ------------------------------------------------------- invite management
InitInvite ==
    /\ Constructed
    /\ invite_only
    /\ email_verify_ttl_hours = 1

NextInvite ==
    \/ Tick
    \/ CreateInvite
    \/ ValidateInviteForSignup
    \/ ValidateInviteForLogin
    \/ RecordInviteUse
    \/ RevokeInviteById
    \/ RevokeInvitesForEmail

SpecInvite == InitInvite /\ [][NextInvite]_vars

\* ---------------------------------------------------------- invite gating
\* The invite store under every configuration of the two gates and of the
\* static list: single-use invites for two emails are created, used, revoked,
\* validated and listed while time passes.
InitGate ==
    /\ Constructed
    /\ email_verify_ttl_hours = 1

NextGate ==
    \/ Tick
    \/ CreateInviteOf({<<" ", "A">>, <<"b">>}, {NULL, <<"dt", 1, "utc">>}, {SqlInt(1)}, {0})
    \/ ValidateInviteOf("signup", {NULL, StaticCode} \cup IssuedCodes(db), {<<"a">>})
    \/ ValidateInviteOf("login", {NULL, StaticCode} \cup IssuedCodes(db), {<<"a">>})
    \/ RecordInviteUseOf(InviteIds(db), {NULL}, {<<" ", "A">>})
    \/ RevokeInviteByIdOf(InviteIds(db) \cup {Uuid("invite", 0)})
    \/ RevokeInvitesForEmailOf({<<"a">>, <<"b">>})
    \/ \E email \in {NULL, <<" ", "A">>}, include_revoked \in BOOLEAN :
          Complete(list_invites(db, email, include_revoked))

SpecGate == InitGate /\ [][NextGate]_vars

\* ------------------------------------------------------------ user profiles
\* One account, signed up without gating, whose profile is read and updated
\* with each payload absent, empty or one of two dicts, while time passes;
\* reads and updates also name no user and a user that does not exist.
InitProfile ==
    /\ Constructed
    /\ ~invite_only /\ ~invite_required_for_login
    /\ invite_codes = <<>>
    /\ email_verify_ttl_hours = 1

NextProfile ==
    \/ Tick
    \/ CreatePasswordUserOf({<<"a">>}, {NULL})
    \/ VerifyEmailTokenOf(IssuedTokens(db))
    \/ GetUserProfileOf(UserIds(db) \cup {NULL, Uuid("user", 0)})
    \/ UpdateUserProfileOf(UserIds(db) \cup {NULL, Uuid("user", 0)}, {NULL, <<>>, <<"k">>, <<"j">>})

SpecProfile == InitProfile /\ [][NextProfile]_vars

\* ------------------------------------------- concurrent invite redemption
\* A redemption is two calls by one caller: validate_invite_for_signup or
\* validate_invite_for_login, then record_invite_use with the id it returned.
\* Calls of different callers interleave between the two.
RedeemValidate(c) ==
    /\ calls[c].pc \in {"idle", "done"}
    /\ \E invite_code \in IssuedCodes(db), email \in {<<" ", "A">>, <<"b">>},
          gate \in {"signup", "login"} :
        LET out == IF gate = "signup"
                   THEN validate_invite_for_signup(db, invite_code, email)
                   ELSE validate_invite_for_login(db, invite_code, email)
        IN  calls' = [calls EXCEPT ![c] =
                        IF out.err = "" /\ Truthy(out.ret)
                        THEN [Idle EXCEPT !.pc = "validated", !.op = "redeem",
                                          !.arg = email, !.ret = out.ret]
                        ELSE [Idle EXCEPT !.pc = "done", !.op = "redeem",
                                          !.arg = email, !.ret = <<out.err>>]]
    /\ UNCHANGED <<db, now, config, llm>>

RedeemRecord(c) ==
    /\ calls[c].pc = "validated"
    /\ \E d \in {record_invite_use(db, calls[c].ret, NULL, calls[c].arg, "password").db} :
        /\ Bounded(d)
        /\ db' = d
    /\ calls' = [calls EXCEPT ![c].pc = "done"]
    /\ UNCHANGED <<now, config, llm>>

InitRedeem ==
    /\ Constructed
    /\ invite_only
    /\ invite_required_for_login
    /\ invite_codes = <<>>
    /\ email_verify_ttl_hours = 1

RedeemValidateAny == \E c \in Callers : RedeemValidate(c)

RedeemRecordAny == \E c \in Callers : RedeemRecord(c)

NextRedeem ==
    \/ Tick
    \/ CreateInvite
    \/ RevokeInviteById
    \/ RedeemValidateAny
    \/ RedeemRecordAny

SpecRedeem == InitRedeem /\ [][NextRedeem]_vars

\* ------------------------------------------ concurrent email verification
\* verify_email_token on its own connection: the SELECT runs in autocommit
\* mode, the two UPDATEs open the write transaction that the end of the
\* `with` block commits.  Another connection can commit between the two.
VerifyRead(c) ==
    /\ calls[c].pc \in {"idle", "done"}
    /\ \E token \in IssuedTokens(db) \cup {<<>>} :
        LET idx == verify_lookup(db, token, now) IN
        calls' = [calls EXCEPT ![c] =
                    IF idx = 0
                    THEN [Idle EXCEPT !.pc = "done", !.op = "verify", !.arg = token]
                    ELSE [Idle EXCEPT !.pc = "verify_write", !.op = "verify",
                                      !.arg = token, !.row = idx, !.at = now]]
    /\ UNCHANGED <<db, now, config, llm>>

VerifyWrite(c) ==
    /\ calls[c].pc = "verify_write"
    /\ LET row == db.email_verifications[calls[c].row]
           ai == db.auth_identities[IdentityById(db, row.identity_id)]
       IN  /\ db' = apply_verification(db, row.id, ai.id, ai.user_id, calls[c].at)
           /\ calls' = [calls EXCEPT ![c].pc = "done", ![c].ret = ai.user_id]
    /\ UNCHANGED <<now, config, llm>>

InitVerify ==
    /\ Constructed
    /\ ~invite_only
    /\ ~invite_required_for_login
    /\ invite_codes = <<>>

VerifyReadAny == \E c \in Callers : VerifyRead(c)

VerifyWriteAny == \E c \in Callers : VerifyWrite(c)

NextVerify ==
    \/ Tick
    \/ CreatePasswordUser
    \/ ResendEmailVerification
    \/ VerifyReadAny
    \/ VerifyWriteAny

SpecVerify == InitVerify /\ [][NextVerify]_vars

\* ------------------------------------------------- concurrent account creation
\* create_password_user and authenticate_google on their own connections.
\* The SELECTs of a call run in autocommit mode; its first INSERT begins the
\* write transaction, which holds the database's write lock until the end of
\* the `with` block commits or rolls back.  Another connection can commit
\* between the SELECTs and the first INSERT.
SignupRead(c) ==
    /\ calls[c].pc \in {"idle", "done"}
    /\ \E email \in {<<"a">>, <<" ", "A">>} :
        LET email_norm == normalize_email(email)
            gate == validate_invite_for_signup(db, NULL, email_norm)
        IN  calls' = [calls EXCEPT ![c] =
                IF gate.err # ""
                THEN [Idle EXCEPT !.pc = "done", !.op = "signup", !.arg = email_norm,
                                  !.ret = <<gate.err>>]
                ELSE IF EmailTaken(db, email_norm)
                THEN [Idle EXCEPT !.pc = "done", !.op = "signup", !.arg = email_norm,
                                  !.ret = <<"AuthError">>]
                ELSE [Idle EXCEPT !.pc = "signup_write", !.op = "signup",
                                  !.arg = email_norm]]
    /\ UNCHANGED <<db, now, config, llm>>

SignupWrite(c) ==
    /\ calls[c].pc = "signup_write"
    /\ LET out == ConnExit(db, signup_insert(db, calls[c].arg, Password1, NULL))
       IN  /\ Bounded(out.db)
           /\ db' = out.db
           /\ calls' = [calls EXCEPT ![c].pc = "done",
                                     ![c].ret = IF out.err # "" THEN <<out.err>> ELSE out.ret]
    /\ UNCHANGED <<now, config, llm>>

\* A login of a known google_sub completes in one step (identities are never
\* deleted); a first login reads which path it takes and writes later.
GoogleRead(c) ==
    /\ calls[c].pc \in {"idle", "done"}
    /\ \E google_sub \in {<<"g", "1">>}, email \in {NULL, <<"a">>},
          email_verified \in {"True", "False"} :
        LET email_norm == GoogleEmailNorm(email)
            lidx == LinkUserIdx(db, email_norm)
            gate == validate_invite_for_signup(db, NULL, email_norm)
            call == [Idle EXCEPT !.op = "google",
                                 !.arg = <<google_sub, email_norm, email_verified>>]
        IN  IF IdentityIdx(db, "google", google_sub) # 0
            THEN LET out == authenticate_google(db, google_sub, email, NULL, NULL,
                                                email_verified, NULL)
                 IN  /\ Bounded(out.db)
                     /\ db' = out.db
                     /\ calls' = [calls EXCEPT ![c] =
                                    [call EXCEPT !.pc = "done", !.ret = out.ret]]
            ELSE /\ db' = db
                 /\ calls' = [calls EXCEPT ![c] =
                        IF may_link(lidx, email_verified)
                        THEN [call EXCEPT !.pc = "google_link", !.row = lidx]
                        ELSE IF gate.err # ""
                        THEN [call EXCEPT !.pc = "done", !.ret = <<gate.err>>]
                        ELSE [call EXCEPT !.pc = "google_signup"]]
    /\ UNCHANGED <<now, config, llm>>

GoogleWrite(c) ==
    /\ calls[c].pc \in {"google_link", "google_signup"}
    /\ LET a == calls[c].arg
           out == ConnExit(db,
                    IF calls[c].pc = "google_link"
                    THEN google_link_write(db, calls[c].row, a[1], a[2], NULL, NULL)
                    ELSE google_signup_write(db, a[1], a[2], NULL, NULL, a[3]))
       IN  /\ Bounded(out.db)
           /\ db' = out.db
           /\ calls' = [calls EXCEPT ![c].pc = "done",
                                     ![c].ret = IF out.err # "" THEN <<out.err>> ELSE out.ret]
    /\ UNCHANGED <<now, config, llm>>

InitSignup ==
    /\ Constructed
    /\ ~invite_only
    /\ ~invite_required_for_login
    /\ invite_codes = <<>>
    /\ email_verify_ttl_hours = 1

SignupReadAny == \E c \in Callers : SignupRead(c)

SignupWriteAny == \E c \in Callers : SignupWrite(c)

GoogleReadAny == \E c \in Callers : GoogleRead(c)

GoogleWriteAny == \E c \in Callers : GoogleWrite(c)

NextSignup ==
    \/ SignupReadAny
    \/ SignupWriteAny
    \/ GoogleReadAny
    \/ GoogleWriteAny

SpecSignup == InitSignup /\ [][NextSignup]_vars

\* ------------------------------------------------- static classification
\* unsupported_openai_chat_params applied to identifiers of every family and
\* to every kind of reasoning effort: the caller holds the arguments, then
\* the result.
ModelInputs ==
    {NULL,
     <<>>,
     <<" ">>,
     <<"g", "p", "t", "-", "5">>,
     <<"g", "p", "t", "-", "5", "-", "m", "i", "n", "i">>,
     <<" ", "g", "p", "t", "-", "5", " ">>,
     <<"g", "p", "t", "-", "5", "0">>,
     <<"g", "p", "t", "-", "4", "o">>,
     <<"G", "p", "t", "-", "5">>,
     <<"g", "p", "t", "-", "5", ".", "1">>,
     <<"g", "p", "t", "-", "5", ".", "2">>,
     <<"g", "p", "t", "-", "5", ".", "1", "-", "p", "r", "o">>,
     <<"g", "p", "t", "-", "5", ".", "2", "-", "t", "h", "i", "n", "k", "i", "n", "g">>,
     <<"g", "p", "t", "-", "5", ".", "1", "-", "P", "R", "O">>,
     <<"g", "p", "t", "-", "5", ".", "2", "-", "m", "i", "n", "i">>,
     <<"g", "p", "t", "-", "5", ".", "3">>,
     <<"o", "1">>,
     <<"o", "3", "-", "m", "i", "n", "i">>,
     <<"o", "4", "-", "m", "i", "n", "i">>,
     <<"o", "2">>,
     <<"x", "o", "1">>,
     <<"p", "r", "o">>}

EffortInputs == {NULL, <<>>, <<"n", "o", "n", "e">>, <<"l", "o", "w">>, <<"h", "i", "g", "h">>}

InitCompat ==
    /\ db = EmptyDb /\ now = 0
    /\ invite_only = FALSE /\ invite_required_for_login = FALSE /\ invite_codes = <<>>
    /\ email_verify_ttl_hours = 1
    /\ Imported
    /\ \E model \in ModelInputs, reasoning_effort \in EffortInputs :
          calls = [c \in Callers |->
                     IF c = "c1"
                     THEN [Idle EXCEPT !.pc = "called",
                                       !.op = "unsupported_openai_chat_params",
                                       !.arg = <<model, reasoning_effort>>]
                     ELSE Idle]

UnsupportedParams ==
    /\ calls["c1"].pc = "called"
    /\ calls' = [calls EXCEPT !["c1"].pc = "done",
                              !["c1"].ret = unsupported_openai_chat_params(
                                                calls["c1"].arg[1], calls["c1"].arg[2])]
    /\ UNCHANGED <<db, now, config, llm>>

NextCompat == UnsupportedParams

SpecCompat == InitCompat /\ [][NextCompat]_vars

\* ---------------------------------------------------- fallback invocations
\* The errors a provider may raise that name parameter p: by param and
\* code, by a dotted path under p, or by the message alone.
ErrorsNaming(p) ==
    {[NoError EXCEPT !.param = <<p>>, !.code = "unsupported_parameter"],
     [NoError EXCEPT !.param = <<p, "type">>, !.code = "unsupported_value"],
     [NoError EXCEPT !.message = <<p>>]}

\* Errors that name no parameter: no body, a text that quotes a name while
\* the body has no message, another code, an empty name.
ErrorsNamingNone ==
    {NoError,
     [NoError EXCEPT !.text = <<"temperature">>],
     [NoError EXCEPT !.param = <<"temperature">>, !.code = "invalid_type"],
     [NoError EXCEPT !.param = <<"">>, !.code = "unsupported_value"]}

Optional == {"temperature", "response_format"}

ManyOptional ==
    Optional \cup {"top_p", "logprobs", "seed", "stop", "frequency_penalty"}

\* What a provider may answer to a request: anything at all ("any"), or
\* ("policy") a rejection of one of the Optional parameters the request
\* carries, and a response when it carries none.
Answers(provider, request) ==
    IF provider = "policy"
    THEN IF request \cap Optional = {} THEN {Accepted}
         ELSE {[NoError EXCEPT !.param = <<p>>, !.code = "unsupported_value"] :
                  p \in request \cap Optional}
    ELSE {Accepted} \cup ErrorsNamingNone
            \cup UNION {ErrorsNaming(p) : p \in request \cup {"stream"}}

FallbackBeginOf(threads, models, optionals) ==
    \E c \in threads, model \in models, optional \in optionals :
        /\ fallback[c].pc \in {"idle", "returned", "raised"}
        /\ fallback' = [fallback EXCEPT ![c] = fallback_begin(model, Required \cup optional)]
        /\ UNCHANGED <<db, now, config, calls, unsupported_params_by_model, facade>>

FallbackStripOf(threads) ==
    \E c \in threads :
        /\ fallback[c].pc = "strip"
        /\ \E param \in (IF fallback[c].unvisited = {} THEN {""} ELSE fallback[c].unvisited) :
              fallback' = [fallback EXCEPT ![c] = fallback_strip(fallback[c], param)]
        /\ UNCHANGED <<db, now, config, calls, unsupported_params_by_model, facade>>

FallbackAttemptOf(threads, provider) ==
    \E c \in threads :
        /\ fallback[c].pc = "attempt"
        /\ \E answer \in Answers(provider, fallback[c].attempt_kwargs) :
              /\ fallback' = [fallback EXCEPT ![c] = fallback_attempt(fallback[c], answer)]
              /\ unsupported_params_by_model' = learn(fallback[c], answer)
        /\ UNCHANGED <<db, now, config, calls, facade>>

\* One thread, one invocation after another, any provider.
InitFallback ==
    /\ db = EmptyDb /\ now = 0
    /\ invite_only = FALSE /\ invite_required_for_login = FALSE /\ invite_codes = <<>>
    /\ email_verify_ttl_hours = 1
    /\ calls = [c \in Callers |-> Idle]
    /\ Imported

NextFallback ==
    \/ FallbackBeginOf({"c1"}, {"m1", ""}, SUBSET Optional)
    \/ FallbackBeginOf({"c1"}, {"m2"}, {{"seed", "temperature"}})
    \/ FallbackStripOf({"c1"})
    \/ FallbackAttemptOf({"c1"}, "any")

SpecFallback == InitFallback /\ [][NextFallback]_vars

\* Invocations with many optional parameters for no model and with one for
\* m1, where a thread that can take a step of its invocation eventually
\* takes it: the provider answers every call.
NextCeiling ==
    \/ FallbackBeginOf({"c1"}, {"m1"}, {{}, {"temperature"}})
    \/ FallbackBeginOf({"c1"}, {""}, {ManyOptional})
    \/ FallbackStripOf({"c1"})
    \/ FallbackAttemptOf({"c1"}, "any")

SpecFallbackFair ==
    /\ InitFallback /\ [][NextCeiling]_vars
    /\ WF_vars(FallbackStripOf({"c1"}))
    /\ WF_vars(FallbackAttemptOf({"c1"}, "any"))

\* Two threads invoke the fallback path for m1 at the same time, against a
\* provider that accepts a request once it carries no Optional parameter.
\* A thread may be switched out between any two steps of its invocation.
NextRace ==
    \/ FallbackBeginOf(Callers, {"m1"}, SUBSET Optional)
    \/ FallbackStripOf(Callers)
    \/ FallbackAttemptOf(Callers, "policy")

SpecRace == InitFallback /\ [][NextRace]_vars

\* --------------------------------------------------------------- JSON mode
\* OpenAIService.call on every response content of up to MaxContent tokens.
ContentInputs == {NULL} \cup UNION {[1..n -> Tokens] : n \in 0..MaxContent}

InitJson ==
    /\ db = EmptyDb /\ now = 0
    /\ invite_only = FALSE /\ invite_required_for_login = FALSE /\ invite_codes = <<>>
    /\ email_verify_ttl_hours = 1
    /\ Imported
    /\ \E content \in ContentInputs, json_mode \in BOOLEAN :
          calls = [c \in Callers |->
                     IF c = "c1"
                     THEN [Idle EXCEPT !.pc = "called", !.op = "OpenAIService.call",
                                       !.arg = <<content, Bool(json_mode)>>]
                     ELSE Idle]

OpenAICall ==
    /\ calls["c1"].pc = "called"
    /\ calls' = [calls EXCEPT !["c1"].pc = "done",
                              !["c1"].ret = openai_call(calls["c1"].arg[1],
                                                        calls["c1"].arg[2] = Bool(TRUE))]
    /\ UNCHANGED <<db, now, config, llm>>

NextJson == OpenAICall

SpecJson == InitJson /\ [][NextJson]_vars

\* -------------------------------------------------------------- LLM facade
\* Two call sites use the facade, one whole operation after another: they
\* swap in one of two substitute services, reset, get the instance, and
\* call through the two module functions.
Substitutes == {[kind |-> "Substitute", id |-> 1], [kind |-> "Substitute", id |-> 2]}

\* The operation `op` with outcome `out` was run at call site c.
Facade(c, op, out) ==
    /\ out.facade.created <= MaxProviders
    /\ facade' = out.facade
    /\ calls' = [calls EXCEPT ![c] = [Idle EXCEPT !.pc = "done", !.op = op,
                                                  !.ret = <<out.service, out.method>>]]
    /\ UNCHANGED <<db, now, config, unsupported_params_by_model, fallback>>

NextFacade ==
    \/ \E c \in Callers : Facade(c, "get_instance", get_instance(facade))
    \/ \E c \in Callers, service \in Substitutes :
          Facade(c, "set_instance", set_instance(facade, service))
    \/ \E c \in Callers : Facade(c, "reset", reset(facade))
    \/ \E c \in Callers : Facade(c, "call_llm", call_llm(facade))
    \/ \E c \in Callers : Facade(c, "call_llm_with_search", call_llm_with_search(facade))

SpecFacade == InitFallback /\ [][NextFacade]_vars

\* ------------------------------------------------------------------ claims

\* The number of successful redemptions (usage rows) of an invite.
Redemptions(d, invite_id) ==
    Cardinality({k \in 1..Len(d.invite_usages) : d.invite_usages[k].invite_id = invite_id})

\* C1: for every database invite with max_uses = N, at most N redemptions
\* (a validation followed by record_invite_use) succeed, for every
\* interleaving of the redemption attempts of different callers.
C1_AtMostMaxUsesRedemptions ==
    \A i \in 1..Len(db.invites) :
        db.invites[i].max_uses # NULL
            => Redemptions(db, db.invites[i].id) <= IntVal(db.invites[i].max_uses)

\* C2: in every reachable state of the store, every invite with max_uses set
\* has used_count <= max_uses, whatever sequence of create_invite,
\* validate_invite_*, record_invite_use and revoke calls produced the state.
C2_UsedCountWithinMaxUses ==
    \A i \in 1..Len(db.invites) :
        db.invites[i].max_uses # NULL
            => db.invites[i].used_count <= IntVal(db.invites[i].max_uses)

\* C3: authenticate_google for a google_sub that has no identity yet, called
\* with email_verified other than true, never attaches the new google
\* identity to an existing user, whatever email it supplies: signup invite
\* gating decides whether it succeeds, and when it does the returned user id
\* is new and owns the one identity that was added.
C3_NoLinkByUnverifiedEmail ==
    \A google_sub \in GoogleSubs, email \in EmailInputs \cup {NULL},
       email_verified \in {"False", "None"}, invite_code \in {NULL, StaticCode} :
        LET out == authenticate_google(db, google_sub, email, NULL, NULL, email_verified,
                                       invite_code)
            n == Len(db.auth_identities)
        IN  IdentityIdx(db, "google", google_sub) = 0 =>
            /\ out.err = validate_invite_for_signup(db, invite_code,
                                                    GoogleEmailNorm(email)).err
            /\ out.err # "" => out.db = db
            /\ out.err = "" =>
                /\ out.ret \notin UserIds(db)
                /\ Len(out.db.users) = Len(db.users) + 1
                /\ out.db.users[Len(out.db.users)].id = out.ret
                /\ Len(out.db.auth_identities) = n + 1
                /\ SubSeq(out.db.auth_identities, 1, n) = db.auth_identities
                /\ out.db.auth_identities[n + 1].provider = "google"
                /\ out.db.auth_identities[n + 1].provider_sub = google_sub
                /\ out.db.auth_identities[n + 1].user_id = out.ret

\* C3 witness: an unverified Google login with the email of an existing
\* password account has been made, and it got a user of its own.
C3_Witness ==
    \E i, j \in 1..Len(db.auth_identities) :
        /\ db.auth_identities[i].provider = "password"
        /\ db.auth_identities[j].provider = "google"
        /\ ~db.auth_identities[j].email_verified
        /\ db.auth_identities[j].email = db.auth_identities[i].email
        /\ db.auth_identities[j].user_id # db.auth_identities[i].user_id

\* C4: authenticate_google with a new google_sub, email_verified = true and
\* the email of an existing password account returns that account's user id,
\* creates no user, adds exactly one google identity owned by that user, and
\* needs no invite code even when invite_only is enabled.
C4_VerifiedEmailLinksToPasswordAccount ==
    \A google_sub \in GoogleSubs, email \in EmailInputs, invite_code \in {NULL, StaticCode} :
        LET out == authenticate_google(db, google_sub, email, NULL, NULL, "True", invite_code)
            pidx == IdentityIdx(db, "password", normalize_email(email))
            n == Len(db.auth_identities)
        IN  (IdentityIdx(db, "google", google_sub) = 0 /\ pidx # 0) =>
            /\ out.err = ""
            /\ out.ret = db.auth_identities[pidx].user_id
            /\ out.db.users = [i \in 1..Len(db.users) |->
                                  IF db.users[i].id = out.ret
                                  THEN [db.users[i] EXCEPT !.last_login_at = Iso(now)]
                                  ELSE db.users[i]]
            /\ Len(out.db.auth_identities) = n + 1
            /\ SubSeq(out.db.auth_identities, 1, n) = db.auth_identities
            /\ out.db.auth_identities[n + 1].provider = "google"
            /\ out.db.auth_identities[n + 1].user_id = db.auth_identities[pidx].user_id

\* The verification rows issued by create_password_user: the first row of
\* each identity (later rows of the identity come from resend).
SignupRows(d) ==
    {n \in 1..Len(d.email_verifications) :
        \A m \in 1..(n - 1) :
            d.email_verifications[m].identity_id # d.email_verifications[n].identity_id}

VerificationOwner(d, n) ==
    d.auth_identities[IdentityById(d, d.email_verifications[n].identity_id)]

\* C5: for the token returned by create_password_user, the first
\* verify_email_token (before expiry) returns the id of the user the signup
\* created and sets the identity's email_verified; every later call with the
\* same token returns none and changes nothing.
C5_VerifyRoundTrip ==
    \A n \in SignupRows(db) :
        LET row == db.email_verifications[n]
            ai == VerificationOwner(db, n)
            out == verify_email_token(db, Token(n))
            again == verify_email_token(out.db, Token(n))
        IN  /\ (row.used_at = NULL /\ FromIso(row.expires_at) >= now) =>
                /\ out.err = ""
                /\ out.ret = ai.user_id
                /\ UserIdx(db, out.ret) # 0
                /\ db.users[UserIdx(db, out.ret)].primary_email = ai.email
                /\ VerificationOwner(out.db, n).email_verified
                /\ again.err = "" /\ again.ret = NULL /\ again.db = out.db
            /\ row.used_at # NULL =>
                /\ out.err = "" /\ out.ret = NULL /\ out.db = db

\* C5 witness: a signup token has been consumed and its identity is verified.
C5_Witness ==
    \E n \in SignupRows(db) :
        /\ db.email_verifications[n].used_at # NULL
        /\ VerificationOwner(db, n).email_verified

\* C6: a verification token is consumed at most once even when several
\* verify_email_token calls for the same token run concurrently: at most one
\* of the calls returns the user id, the others return none.
C6_TokenConsumedAtMostOnce ==
    \A t \in IssuedTokens(db) :
        Cardinality({c \in Callers : /\ calls[c].op = "verify"
                                     /\ calls[c].pc = "done"
                                     /\ calls[c].arg = t
                                     /\ calls[c].ret # NULL}) <= 1

\* Token n is not accepted by verify_email_token in the current state.
TokenInvalid(n) == verify_email_token(db, Token(n)).ret = NULL

\* Token n has been consumed or has expired.
TokenSpent(n) ==
    \/ db.email_verifications[n].used_at # NULL
    \/ FromIso(db.email_verifications[n].expires_at) < now

\* C7 (state part): an expired, unused token is rejected although its row
\* exists: the call returns none and leaves the identity and used_at as
\* they are.
C7_ExpiredRejected ==
    \A n \in 1..Len(db.email_verifications) :
        (db.email_verifications[n].used_at = NULL
         /\ FromIso(db.email_verifications[n].expires_at) < now) =>
            /\ verify_email_token(db, Token(n)).err = ""
            /\ verify_email_token(db, Token(n)).ret = NULL
            /\ verify_email_token(db, Token(n)).db = db

\* C7: an expired token is rejected by verify_email_token, and once a token
\* is consumed or expired no later operation (resend_email_verification
\* included) makes it valid again: it stays consumed or expired, and in
\* every state a consumed or expired token is rejected.
C7_NoResurrection ==
    /\ []C7_ExpiredRejected
    /\ [](\A n \in 1..Len(db.email_verifications) : TokenSpent(n) => TokenInvalid(n))
    /\ [][\A n \in 1..Len(db.email_verifications) : TokenSpent(n) => TokenSpent(n)']_vars

\* C7 witness: an expired token that was never used, its identity unverified.
C7_Witness ==
    \E n \in 1..Len(db.email_verifications) :
        /\ db.email_verifications[n].used_at = NULL
        /\ FromIso(db.email_verifications[n].expires_at) < now
        /\ ~VerificationOwner(db, n).email_verified

\* The identity and the verification that make a password login succeed.
VerifiedBy(d, ai) ==
    \E n \in 1..Len(d.email_verifications) :
        /\ d.email_verifications[n].identity_id = ai.id
        /\ d.email_verifications[n].used_at # NULL

\* C8: authenticate_password raises InvalidCredentialsError for a wrong
\* password or an email without a password identity, before and after
\* verification; EmailNotVerifiedError for the right password on an
\* unverified identity; and after verification returns the user whose id
\* verify_email_token returned.  (Every account is created with Password1.)
C8_PasswordLoginOutcome ==
    \A email \in EmailInputs \cup {<<>>}, password \in {Password1, Password2, <<>>} :
        LET out == authenticate_password(db, email, password)
            idx == IdentityIdx(db, "password", normalize_email(email))
            ai == db.auth_identities[idx]
        IN  /\ (idx = 0 \/ password # Password1) =>
                out.err = "InvalidCredentialsError"
            /\ (idx # 0 /\ password = Password1 /\ ~ai.email_verified) =>
                out.err = "EmailNotVerifiedError"
            /\ (idx # 0 /\ password = Password1 /\ ai.email_verified) =>
                /\ out.err = ""
                /\ out.ret = ai.user_id
                /\ out.user.id = ai.user_id
                /\ VerifiedBy(db, ai)

\* C8 witness: a verified password account exists and has logged in.
C8_Witness ==
    \E i \in 1..Len(db.auth_identities), k \in 1..Len(db.login_events) :
        /\ db.auth_identities[i].provider = "password"
        /\ db.auth_identities[i].email_verified
        /\ db.login_events[k].reason = "login"
        /\ db.login_events[k].user_id = db.auth_identities[i].user_id

\* The reason code a password login outcome is recorded with.
LoginReason(err) ==
    IF err = "" THEN "login"
    ELSE IF err = "EmailNotVerifiedError" THEN "email_not_verified"
    ELSE "invalid_credentials"

\* C9: every authenticate_password attempt, whether it succeeds or fails,
\* leaves exactly one new login_events row, whose reason matches the outcome.
C9_EveryAttemptLogged ==
    \A email \in EmailInputs, password \in {Password1, Password2} :
        LET out == authenticate_password(db, email, password)
            n == Len(db.login_events)
        IN  /\ Len(out.db.login_events) = n + 1
            /\ SubSeq(out.db.login_events, 1, n) = db.login_events
            /\ out.db.login_events[n + 1].reason = LoginReason(out.err)

\* A call that raises leaves the committed database as it was.
RaiseKeepsStore(out) == out.err # "" => out.db = db

\* What a reader of the committed database finds when every operation's
\* writes were committed together: each user with its identity, its profile
\* row and the event of its creation, each password identity with a
\* verification row, each invite's used_count with as many usage rows.
StoreWhole(d) ==
    /\ \A u \in 1..Len(d.users) :
        /\ \E i \in 1..Len(d.auth_identities) : d.auth_identities[i].user_id = d.users[u].id
        /\ ProfileIdx(d, d.users[u].id) # 0
        /\ \E k \in 1..Len(d.login_events) :
              /\ d.login_events[k].user_id = d.users[u].id
              /\ d.login_events[k].reason \in {"signup", "signup_and_login"}
    /\ \A i \in 1..Len(d.auth_identities) :
        /\ UserIdx(d, d.auth_identities[i].user_id) # 0
        /\ d.auth_identities[i].provider = "password" =>
              \E n \in 1..Len(d.email_verifications) :
                  d.email_verifications[n].identity_id = d.auth_identities[i].id
    /\ \A i \in 1..Len(d.invites) :
        d.invites[i].used_count = Redemptions(d, d.invites[i].id)

\* C10: every public operation is all-or-nothing: a call that raises leaves
\* the store (users, identities, profiles, verifications, login events,
\* invites, invite usages) equal to the store before the call, and the
\* writes of a call that returns are committed together, so the committed
\* store never shows part of an operation.
C10_AllOrNothing ==
    /\ StoreWhole(db)
    /\ \A email \in {<<" ", "A">>, <<"b">>, <<>>} :
        /\ \A password \in {Password1, Password2, ShortPassword} :
            /\ RaiseKeepsStore(authenticate_password(db, email, password))
            /\ \A invite_code \in {NULL} \cup IssuedCodes(db) :
                  RaiseKeepsStore(create_password_user(db, email, password, NULL, invite_code))
        /\ RaiseKeepsStore(resend_email_verification(db, email))
        /\ RaiseKeepsStore(revoke_invites_for_email(db, email))
        /\ \A google_sub \in GoogleSubs, email_verified \in {"True", "None"},
              invite_code \in {NULL} \cup IssuedCodes(db) :
              RaiseKeepsStore(authenticate_google(db, google_sub, email, NULL, NULL,
                                                  email_verified, invite_code))
        /\ \A collisions \in {0, InviteCodeAttempts} :
              RaiseKeepsStore(create_invite(db, email, NULL, NULL, Draws(db, collisions)))
    /\ \A invite_id \in InviteIds(db) \cup {NULL, Uuid("invite", 0)},
          user_id \in UserIds(db) \cup {NULL, Uuid("user", 0)} :
          RaiseKeepsStore(record_invite_use(db, invite_id, user_id, <<"a">>, "google"))
    /\ \A token \in IssuedTokens(db) \cup {<<>>} :
          RaiseKeepsStore(verify_email_token(db, token))
    /\ \A invite_id \in InviteIds(db) \cup {Uuid("invite", 0)} :
          RaiseKeepsStore(revoke_invite_by_id(db, invite_id))
    /\ \A user_id \in UserIds(db) \cup {NULL, Uuid("user", 0)} :
        /\ RaiseKeepsStore(get_user_profile(db, user_id))
        /\ RaiseKeepsStore(update_user_profile(db, user_id, <<"k">>, NULL))

\* C10 witness: calls that write and then raise are at hand (a login with the
\* right password on an unverified account, a usage row for a user that does
\* not exist), beside a committed signup and a committed invite use.
C10_Witness ==
    /\ authenticate_password(db, <<"a">>, Password1).err = "EmailNotVerifiedError"
    /\ \E i \in 1..Len(db.invites) :
        /\ db.invites[i].used_count > 0
        /\ record_invite_use(db, db.invites[i].id, Uuid("user", 0), <<"a">>,
                             "password").err = "IntegrityError"
    /\ \E k \in 1..Len(db.login_events) : db.login_events[k].reason = "signup_and_login"

\* C11: in every reachable state, after concurrent signups and concurrent
\* first Google logins included, (provider, provider_sub) identifies at most
\* one identity, and every user owns an identity: a create_password_user
\* call that loses the race for an email leaves neither a second password
\* identity nor a second user.
C11_IdentityKeyUnique ==
    /\ \A i, j \in 1..Len(db.auth_identities) :
          (/\ db.auth_identities[i].provider = db.auth_identities[j].provider
           /\ db.auth_identities[i].provider_sub = db.auth_identities[j].provider_sub)
              => i = j
    /\ \A u \in 1..Len(db.users) :
          \E i \in 1..Len(db.auth_identities) : db.auth_identities[i].user_id = db.users[u].id

\* C11 witness: two signups for one email raced; one returned its token and
\* the other was stopped by the UNIQUE constraint.
C11_Witness ==
    \E c1, c2 \in Callers :
        /\ calls[c1].op = "signup" /\ calls[c1].pc = "done" /\ calls[c1].ret \in IssuedTokens(db)
        /\ calls[c2].op = "signup" /\ calls[c2].pc = "done"
        /\ calls[c2].ret = <<"IntegrityError">>
        /\ calls[c1].arg = calls[c2].arg

\* C12: a create_password_user call for an email that already belongs to an
\* identity when the call's transaction ends fails with AuthError, also when
\* it lost a race against another signup for the same email.
C12_DuplicateEmailIsAuthError ==
    \A c \in Callers :
        (/\ calls[c].op = "signup"
         /\ calls[c].pc = "done"
         /\ calls[c].ret \notin IssuedTokens(db))
            => calls[c].ret = <<"AuthError">>

\* The invite row is neither revoked, nor expired, nor used up.
InviteActive(row) ==
    /\ row.revoked_at = NULL
    /\ row.expires_at = NULL \/ FromIso(row.expires_at) >= now
    /\ row.max_uses = NULL \/ row.used_count < IntVal(row.max_uses)

CodeInputs ==
    {NULL, <<>>, <<" ">>, StaticCode, <<" ">> \o StaticCode \o <<" ">>, <<"S", "2">>,
     InviteCode(1)}

\* The gates that are on, as the validation each one runs.
GateResult(gate, invite_code, email) ==
    IF gate = "signup" THEN validate_invite_for_signup(db, invite_code, email)
    ELSE validate_invite_for_login(db, invite_code, email)

GateOn(gate) == IF gate = "signup" THEN invite_only ELSE invite_required_for_login

\* With `member` deciding membership in the static list: once an invite row
\* exists the static code is rejected with InviteInvalidError, and while
\* none exists a code validates iff it is a member.
StaticListRule(member(_)) ==
    \A gate \in {"signup", "login"}, email \in {NULL, <<"a">>} :
        GateOn(gate) =>
            /\ Len(db.invites) > 0 =>
                  \A code \in {StaticCode, <<" ">> \o StaticCode \o <<" ">>} :
                      /\ GateResult(gate, code, email).err = "InviteInvalidError"
                      /\ GateResult(gate, code, email).db = db
            /\ Len(db.invites) = 0 =>
                  \A code \in CodeInputs :
                      GateResult(gate, code, email).err = "" <=> member(code)

StrippedMember(code) == Strip(OrEmpty(code)) \in Range(invite_codes)

ExactMember(code) == code \in Range(invite_codes)

\* Invite rows are never deleted: every row keeps its place, id and code.
InviteRowsKept ==
    /\ Len(db'.invites) >= Len(db.invites)
    /\ \A i \in 1..Len(db.invites) :
          /\ db'.invites[i].id = db.invites[i].id
          /\ db'.invites[i].code_hash = db.invites[i].code_hash

\* C14: as soon as one invite row exists, whatever its status, validation is
\* against the database only and a code of the static list is rejected with
\* InviteInvalidError; invite rows are never deleted, so this stays so.
\* While no invite row exists a code validates iff, stripped of surrounding
\* whitespace, it is a member of the static list.
C14_DatabaseTakesPrecedence ==
    /\ [](StaticListRule(StrippedMember))
    /\ [][InviteRowsKept]_vars

\* C14 as stated: while no invite row exists a code validates iff it is an
\* exact member of the static list.
C14_ExactMemberOnly == StaticListRule(ExactMember)

\* C14 witness: a static list is configured, signup is gated, and the only
\* invite rows are revoked ones: the static code is refused.
C14_Witness ==
    /\ invite_only /\ invite_codes = <<StaticCode>>
    /\ Len(db.invites) > 0
    /\ \A i \in 1..Len(db.invites) : db.invites[i].revoked_at # NULL
    /\ validate_invite_for_signup(db, StaticCode, <<"a">>).err = "InviteInvalidError"

\* C15: with signup gated, no static code and no invite row, every signup
\* attempt, by password or by a first Google login, with any invite code
\* or none, raises SignupDisabledError and creates no user.
C15_SignupDisabledForAll ==
    (invite_only /\ invite_codes = <<>> /\ Len(db.invites) = 0) =>
        \A invite_code \in CodeInputs :
            LET create == create_password_user(db, <<"a">>, Password1, NULL, invite_code)
                google == authenticate_google(db, <<"g", "1">>, <<"a">>, NULL, NULL, "True",
                                              invite_code)
            IN  /\ create.err = "SignupDisabledError" /\ create.db = db
                /\ google.err = "SignupDisabledError" /\ google.db = db

\* With `errors` the errors a non-empty code may raise: a gate that is off
\* returns none for every code and changes nothing; a gate that is on raises
\* InviteRequiredError for a missing, empty or blank code and one of
\* `errors` for any other code that does not validate; a password signup
\* under invite_only succeeds only with a code that validates.
GateRule(errors) ==
    \A invite_code \in CodeInputs, email \in {NULL, <<"a">>, <<"b">>} :
        /\ \A gate \in {"signup", "login"} :
              LET r == GateResult(gate, invite_code, email) IN
              IF ~GateOn(gate) THEN r.err = "" /\ r.ret = NULL /\ r.db = db
              ELSE IF ~Truthy(Strip(OrEmpty(invite_code))) THEN r.err = "InviteRequiredError"
              ELSE r.err \in {""} \cup errors
        /\ (invite_only /\ create_password_user(db, email, Password1, NULL, invite_code).err = "")
              => validate_invite_for_signup(db, invite_code, email).err = ""

\* C16: validation returns none for every code and store state when its
\* flag is off; when the flag is on, a missing, empty or blank code raises
\* InviteRequiredError and any other code that does not validate raises
\* InviteInvalidError, or SignupDisabledError exactly when neither a static
\* code nor an invite row exists; a signup under invite_only succeeds only
\* with a code that validates.
C16_GateOutcomes ==
    /\ GateRule({"InviteInvalidError", "SignupDisabledError"})
    /\ \A gate \in {"signup", "login"}, invite_code \in CodeInputs :
          (GateOn(gate) /\ Truthy(Strip(OrEmpty(invite_code)))) =>
              (GateResult(gate, invite_code, <<"a">>).err = "SignupDisabledError"
                  <=> (invite_codes = <<>> /\ Len(db.invites) = 0))

\* C16 as stated: a non-empty code that does not validate raises
\* InviteInvalidError.
C16_OnlyInviteInvalid == GateRule({"InviteInvalidError"})

\* C16 witness: signup is gated and login is not; an invite bound to one
\* email is refused for another email at signup and waved through at login.
C16_Witness ==
    /\ invite_only /\ ~invite_required_for_login
    /\ Len(db.invites) > 0
    /\ validate_invite_for_signup(db, InviteCode(1), <<"b">>).err = "InviteInvalidError"
    /\ validate_invite_for_signup(db, InviteCode(1), <<"a">>).err = ""
    /\ validate_invite_for_signup(db, <<" ">>, <<"a">>).err = "InviteRequiredError"
    /\ validate_invite_for_login(db, InviteCode(1), <<"b">>) = Return(db, NULL)

\* C17: validation has no side effects.  Whether it returns or raises,
\* validate_invite_for_signup and validate_invite_for_login leave the store
\* as it was (every used_count and revoked_at, and the invite_usages table),
\* so validating again gives the same result; a validation that succeeds
\* against the database returns the id of the invite whose code matched.
C17_ValidationIsPure ==
    \A gate \in {"signup", "login"}, invite_code \in CodeInputs, email \in {NULL, <<"a">>, <<"b">>} :
        LET r == GateResult(gate, invite_code, email) IN
        /\ r.db.invites = db.invites
        /\ r.db.invite_usages = db.invite_usages
        /\ r.db = db
        /\ (GateOn(gate) /\ r.err = "" /\ Len(db.invites) > 0) =>
              \E i \in 1..Len(db.invites) :
                  /\ db.invites[i].code_hash = sha256_hex(Strip(invite_code))
                  /\ r.ret = db.invites[i].id

\* C17 witness: both gates on, time has passed, and an unused invite with an
\* expiry validates at both gates, returning its id.
C17_Witness ==
    /\ invite_only /\ invite_required_for_login
    /\ Len(db.invites) > 0 /\ now > 0
    /\ validate_invite_for_signup(db, InviteCode(1), <<"a">>).ret = db.invites[1].id
    /\ validate_invite_for_login(db, InviteCode(1), <<"a">>).ret = db.invites[1].id
    /\ db.invites[1].used_count = 0
    /\ db.invites[1].expires_at # NULL

\* Invites differ at most in revoked_at, and only at the rows in `changed`,
\* which were not revoked and now are.
RevokedOnly(before, after, changed) ==
    /\ Len(after.invites) = Len(before.invites)
    /\ \A i \in 1..Len(before.invites) :
          IF i \in changed
          THEN /\ before.invites[i].revoked_at = NULL
               /\ after.invites[i] = [before.invites[i] EXCEPT !.revoked_at = Iso(now)]
          ELSE after.invites[i] = before.invites[i]
    /\ after = [before EXCEPT !.invites = after.invites]

\* What one revocation call does in the current store, and what the same
\* call does right after it.
RevocationRule ==
    /\ \A invite_id \in InviteIds(db) \cup {NULL, Uuid("invite", 0)} :
          LET r == revoke_invite_by_id(db, invite_id)
              open == {i \in 1..Len(db.invites) :
                          db.invites[i].id = invite_id /\ db.invites[i].revoked_at = NULL}
          IN  /\ r.err = "" /\ r.ret = Bool(open # {})
              /\ RevokedOnly(db, r.db, open)
              /\ revoke_invite_by_id(r.db, invite_id) = Return(r.db, Bool(FALSE))
    /\ \A email \in EmailInputs \cup {<<>>} :
          LET r == revoke_invites_for_email(db, email)
              open == {i \in 1..Len(db.invites) :
                          /\ db.invites[i].allowed_email = normalize_email(email)
                          /\ db.invites[i].revoked_at = NULL}
          IN  /\ r.err = "" /\ r.ret = SqlInt(Cardinality(open))
              /\ RevokedOnly(db, r.db, open)
              /\ revoke_invites_for_email(r.db, email) = Return(r.db, SqlInt(0))

\* A revoked invite is refused at every gate that is on, for every email.
RevokedRejected ==
    \A i \in 1..Len(db.invites), gate \in {"signup", "login"}, email \in EmailInputs \cup {NULL} :
        (db.invites[i].revoked_at # NULL /\ GateOn(gate)) =>
            GateResult(gate, InviteCode(i), email).err = "InviteInvalidError"

\* Once set, revoked_at keeps its value.
RevokedAtKept ==
    \A i \in 1..Len(db.invites) :
        db.invites[i].revoked_at # NULL =>
            db'.invites[i].revoked_at = db.invites[i].revoked_at

\* C18: revocation is set-once and idempotent.  revoke_invite_by_id and
\* revoke_invites_for_email set revoked_at only where it is unset and report
\* whether, or how many, rows changed; revoking again changes nothing and
\* reports no change; no operation clears or rewrites a revoked_at that is
\* set; a revoked invite is refused by every later validation.
C18_RevocationSetOnce ==
    /\ [](RevocationRule /\ RevokedRejected)
    /\ [][RevokedAtKept]_vars

\* C18 witness: an invite revoked at an earlier time, with both gates on.
C18_Witness ==
    /\ invite_only /\ invite_required_for_login
    /\ \E i \in 1..Len(db.invites) :
          /\ db.invites[i].revoked_at = Iso(0)
          /\ now > 0
          /\ revoke_invite_by_id(db, db.invites[i].id).ret = Bool(FALSE)

\* The values that disclose an issued code: the code and its hash.
CodeSecrets == IssuedCodes(db) \cup {sha256_hex(code) : code \in IssuedCodes(db)}

\* C19: the plaintext invite code is disclosed once, by the create_invite
\* call that made it.  create_invite returns a code not issued before and
\* stores its hash only; no record list_invites returns, for any filter,
\* has a field holding a code or its hash; validation, recording a use and
\* revocation never return a code.
C19_CodeDisclosedOnce ==
    /\ \A allowed_email \in {<<" ", "A">>, <<"b">>}, expires_at \in {NULL, <<"dt", 1, "utc">>} :
          LET out == create_invite(db, allowed_email, expires_at, SqlInt(1), Draws(db, 0)) IN
          Bounded(out.db) =>
              /\ out.err = "" /\ out.ret \notin IssuedCodes(db)
              /\ out.db.invites[Len(out.db.invites)].code_hash = sha256_hex(out.ret)
    /\ \A i \in 1..Len(db.invites) :
          \A f \in DOMAIN db.invites[i] \ {"used_count"} : db.invites[i][f] \notin IssuedCodes(db)
    /\ \A email \in {NULL, <<>>, <<" ", "A">>, <<"b">>}, include_revoked \in BOOLEAN :
          LET out == list_invites(db, email, include_revoked) IN
          /\ out.err = "" /\ out.db = db
          /\ \A k \in 1..Len(out.ret) :
                \A f \in DOMAIN out.ret[k] \ {"used_count"} : out.ret[k][f] \notin CodeSecrets
    /\ \A invite_code \in CodeInputs, gate \in {"signup", "login"} :
          GateResult(gate, invite_code, <<"a">>).ret \notin IssuedCodes(db)
    /\ \A invite_id \in InviteIds(db) :
          /\ revoke_invite_by_id(db, invite_id).ret \notin IssuedCodes(db)
          /\ record_invite_use(db, invite_id, NULL, <<"a">>, <<"password">>).ret \notin IssuedCodes(db)
    /\ \A email \in EmailInputs : revoke_invites_for_email(db, email).ret \notin IssuedCodes(db)

\* C19 witness: a listing that returns a record of an invite that was
\* created, used and revoked, and a listing that leaves it out.
C19_Witness ==
    /\ Len(db.invites) > 0
    /\ db.invites[1].used_count > 0 /\ db.invites[1].revoked_at # NULL
    /\ Len(list_invites(db, <<" ", "A">>, TRUE).ret) = 1
    /\ list_invites(db, <<" ", "A">>, TRUE).ret[1].id = db.invites[1].id
    /\ list_invites(db, <<" ", "A">>, FALSE).ret = <<>>

\* C20: with invite_required_for_login on, every login is gated.
\* authenticate_password, which is passed no invite code, does not succeed;
\* authenticate_google for a Google identity that exists, or for an email
\* it links to an existing user, succeeds only with an invite code that
\* validate_invite_for_login accepts for that email.
C20_EveryLoginGated ==
    invite_required_for_login =>
        /\ \A password \in {Password1, Password2} :
              authenticate_password(db, <<"a">>, password).err # ""
        /\ \A invite_code \in {NULL} \cup IssuedCodes(db), email_verified \in VerifiedInputs :
              LET out == authenticate_google(db, <<"g", "1">>, <<"a">>, NULL, NULL,
                                             email_verified, invite_code)
              IN  (out.err = "" /\ Len(out.db.users) = Len(db.users)) =>
                      validate_invite_for_login(db, invite_code, <<"a">>).err = ""

\* The token is accepted by verify_email_token in d, and once only.
ConsumableOnce(d, token) ==
    LET first == verify_email_token(d, token) IN
    /\ first.err = "" /\ first.ret # NULL
    /\ verify_email_token(first.db, token) = Return(first.db, NULL)

\* C21: resend_email_verification raises AuthError, changing nothing, when
\* the normalized email has no password identity or that identity is
\* verified.  Otherwise it returns a token issued to nobody before, and
\* every earlier token that was unexpired and unused is so still: each of
\* them, and the new one, is accepted by verify_email_token once.
C21_ResendKeepsEarlierTokens ==
    \A email \in EmailInputs \cup {<<>>} :
        LET out == resend_email_verification(db, email)
            idx == IdentityIdx(db, "password", normalize_email(email))
        IN  IF idx = 0 \/ db.auth_identities[idx].email_verified
            THEN out.err = "AuthError" /\ out.db = db
            ELSE /\ out.err = ""
                 /\ out.ret \notin IssuedTokens(db)
                 /\ \A k \in 1..Len(db.email_verifications) :
                       /\ out.db.email_verifications[k] = db.email_verifications[k]
                       /\ db.email_verifications[k].token_hash # sha256_hex(out.ret)
                 /\ \A token \in IssuedTokens(db) :
                       verify_lookup(db, token, now) # 0 => ConsumableOnce(out.db, token)
                 /\ ConsumableOnce(out.db, out.ret)

\* C21 witness: after a resend, two tokens of one unverified identity are
\* both unexpired and unused.
C21_Witness ==
    \E j, k \in 1..Len(db.email_verifications) :
        /\ j < k
        /\ db.email_verifications[j].identity_id = db.email_verifications[k].identity_id
        /\ verify_lookup(db, Token(j), now) = j
        /\ verify_lookup(db, Token(k), now) = k
        /\ \E e \in 1..Len(db.login_events) : db.login_events[e].reason = "resend_verification"

\* The payloads offered to update_user_profile: absent, empty, two dicts.
PayloadInputs == {NULL, <<>>, <<"k">>, <<"j">>}

\* With `shown(v)` the value get_user_profile returns for a supplied payload
\* v: an update of a user's profile followed by a read returns, for each
\* payload, shown(v) if the update supplied v and what a read before the
\* update returned if it supplied none.
ProfileRule(shown(_)) ==
    \A user_id \in UserIds(db), sender_profile \in PayloadInputs, preferences \in PayloadInputs :
        LET before == get_user_profile(db, user_id)
            out == update_user_profile(db, user_id, sender_profile, preferences)
            after == get_user_profile(out.db, user_id)
        IN  /\ before.err = "" /\ out.err = "" /\ after.err = ""
            /\ after.ret[1] = IF sender_profile = NULL THEN before.ret[1]
                               ELSE shown(sender_profile)
            /\ after.ret[2] = IF preferences = NULL THEN before.ret[2]
                               ELSE shown(preferences)

AsSupplied(v) == v

EmptyAsNone(v) == OrNone(v)

\* A step changes a stored payload only as some update_user_profile call does.
PayloadsChangeByUpdate ==
    (\E i \in 1..Len(db.user_profiles) :
        \/ db'.user_profiles[i].sender_profile_json # db.user_profiles[i].sender_profile_json
        \/ db'.user_profiles[i].preferences_json # db.user_profiles[i].preferences_json)
    => \E user_id \in UserIds(db), sender_profile \in PayloadInputs, preferences \in PayloadInputs :
          db' = update_user_profile(db, user_id, sender_profile, preferences).db

\* C22: the two profile payloads are independent.  update_user_profile
\* given only sender_profile leaves preferences as they were, and given only
\* preferences leaves sender_profile; stored payloads change by updates
\* only; so get_user_profile returns, for each payload, the value of the
\* most recent update that supplied it, an empty value being returned as
\* none.
C22_PayloadsIndependent ==
    /\ [](ProfileRule(EmptyAsNone))
    /\ [][PayloadsChangeByUpdate]_vars

\* C22 as stated: the read returns the value the update supplied.
C22_ReadReturnsSupplied == ProfileRule(AsSupplied)

\* C22 witness: a profile whose two payloads were set by different updates,
\* at different times.
C22_Witness ==
    \E i \in 1..Len(db.user_profiles) :
        /\ db.user_profiles[i].sender_profile_json = json_dumps(<<"k">>)
        /\ db.user_profiles[i].preferences_json = json_dumps(<<"j">>)
        /\ get_user_profile(db, db.user_profiles[i].user_id).ret = <<(<<"k">>), <<"j">>, Iso(now)>>
        /\ now > 0

\* The profile rows of a user.
ProfileRows(d, user_id) == {i \in 1..Len(d.user_profiles) : d.user_profiles[i].user_id = user_id}

\* C23: after any sequence of operations every user has exactly one profile
\* row and every profile row belongs to a user; get_user_profile for a user
\* whose profile was never configured returns the structure with both
\* payloads none, and does so too, creating the row, were the row missing.
C23_OneProfilePerUser ==
    /\ \A u \in 1..Len(db.users) : Cardinality(ProfileRows(db, db.users[u].id)) = 1
    /\ \A i \in 1..Len(db.user_profiles) : UserIdx(db, db.user_profiles[i].user_id) # 0
    /\ \A u \in 1..Len(db.users) :
          LET user_id == db.users[u].id
              row == db.user_profiles[ProfileIdx(db, user_id)]
              bare == [db EXCEPT !.user_profiles =
                          SelectSeq(@, LAMBDA r : r.user_id # user_id)]
              lazy == get_user_profile(bare, user_id)
          IN  /\ (row.sender_profile_json = <<"{", "}">> /\ row.preferences_json = <<"{", "}">>)
                    => get_user_profile(db, user_id) = Return(db, <<NULL, NULL, row.updated_at>>)
              /\ lazy.err = "" /\ lazy.ret = <<NULL, NULL, Iso(now)>>
              /\ Cardinality(ProfileRows(lazy.db, user_id)) = 1

\* C23 witness: a user who signed up, verified and logged in by password and
\* by Google, and whose profile was never configured.
C23_Witness ==
    \E u \in 1..Len(db.users) :
        /\ \E e \in 1..Len(db.login_events) :
              db.login_events[e].reason = "login" /\ db.login_events[e].user_id = db.users[u].id
        /\ Cardinality({i \in 1..Len(db.auth_identities) :
                            db.auth_identities[i].user_id = db.users[u].id}) = 2
        /\ get_user_profile(db, db.users[u].id).ret[1] = NULL
        /\ get_user_profile(db, db.users[u].id).ret[2] = NULL

\* The family of a model identifier (surrounding whitespace apart), by its
\* prefix alone.
Family(id) ==
    IF startswith(id, Gpt51) \/ startswith(id, Gpt52) THEN "dotted"
    ELSE IF startswith(id, Gpt5) THEN "base"
    ELSE IF \E d \in {"1", "3", "4"} : startswith(id, <<"o", d>>) THEN "reasoning"
    ELSE "other"

\* The restricted-variant markers, in any letter case.
Marked(id) ==
    \E i \in 1..Len(id), j \in 1..Len(id) :
        Lower(SubSeq(id, i, j)) \in {<<"p", "r", "o">>, <<"t", "h", "i", "n", "k", "i", "n", "g">>}

Classification(id, effort) ==
    CASE Family(id) = "base" -> {"temperature", "top_p", "logprobs"}
      [] Family(id) = "dotted" ->
            IF Marked(id) \/ (effort # NULL /\ effort # <<"n", "o", "n", "e">>)
            THEN {"temperature", "top_p", "logprobs"} ELSE {}
      [] Family(id) = "reasoning" ->
            {"temperature", "top_p", "logprobs", "frequency_penalty", "presence_penalty"}
      [] OTHER -> {}

\* C24: whatever the model identifier and the reasoning effort,
\* unsupported_openai_chat_params returns the set the static classification
\* gives: the sampling parameters for the base GPT-5 family, the same set
\* for gpt-5.1 / gpt-5.2 exactly when the name carries a restricted-variant
\* marker or an effort other than none was supplied, sampling and penalty
\* parameters for o1 / o3 / o4, and nothing for any other identifier.
C24_StaticClassification ==
    calls["c1"].pc = "done" =>
        calls["c1"].ret = Classification(Strip(OrEmpty(calls["c1"].arg[1])), calls["c1"].arg[2])

\* A gpt-5.2 identifier without a marker, called with an effort, has been
\* given the sampling parameters.
C24_Witness ==
    /\ calls["c1"].pc = "done"
    /\ calls["c1"].arg = <<<<"g", "p", "t", "-", "5", ".", "2", "-", "m", "i", "n", "i">>, <<"l", "o", "w">>>>
    /\ calls["c1"].ret = UNSUPPORTED_SAMPLING_PARAMS

\* The parameter a provider error rejects: the head of the path it gives,
\* else the name its message quotes.
Rejected(exc) == IF exc.param # NULL THEN exc.param[1] ELSE exc.message[1]

\* C25: in an invocation of the fallback path that is still trying or has
\* returned, every provider call but the last was a rejection, so the calls
\* made are the rejections plus one once it returns; the request of each
\* attempt is the request of the attempt before without exactly the
\* parameter that was rejected, which that request carried.
C25_OneParameterPerRejection ==
    LET f == fallback["c1"] IN
    /\ f.pc = "returned" => f.calls_made = f.attempt + 1
    /\ f.pc \in {"attempt", "returned"} /\ f.calls_made > 0 =>
            Cardinality(f.last) = Cardinality(f.first) - (f.calls_made - 1)
    /\ f.pc = "attempt" /\ f.calls_made > 0 =>
            /\ f.calls_made = f.attempt
            /\ Rejected(f.rejection) \in f.last
            /\ f.attempt_kwargs = f.last \ {Rejected(f.rejection)}
            /\ f.attempt_kwargs \subseteq f.first

\* temperature, then response_format were rejected and the third attempt,
\* without both, was accepted.
C25_Witness ==
    LET f == fallback["c1"] IN
    /\ f.pc = "returned" /\ f.calls_made = 3 /\ f.model = "m1"
    /\ f.first = Required \cup Optional
    /\ Rejected(f.rejection) = "response_format"
    /\ f.last = Required

\* What every step keeps of C26: nothing learned is forgotten, a retry
\* changes the set of no other model, and the first request of an
\* invocation is the caller's without what is known for its model, so that
\* what is known for other models changes nothing.
FirstAttemptOmitsLearned ==
    LET f == fallback["c1"]
        g == fallback'["c1"]
    IN  /\ \A m \in ModelIds : unsupported_params_by_model[m] \subseteq unsupported_params_by_model'[m]
        /\ g.attempt = f.attempt + 1 =>
                \A m \in ModelIds \ {f.model} :
                    unsupported_params_by_model'[m] = unsupported_params_by_model[m]
        /\ f.calls_made = 0 /\ g.calls_made = 1 =>
                g.first = f.create_kwargs \ unsupported_params_by_model[f.model]

\* C26: a parameter dropped after a rejection is remembered for the model
\* of the invocation when the model identifier is not empty, and the first
\* attempt of every later invocation omits exactly what has been learned
\* for its own model.
C26_LearnedForNamedModel ==
    [][/\ FirstAttemptOmitsLearned
       /\ fallback'["c1"].attempt = fallback["c1"].attempt + 1 /\ fallback["c1"].model # "" =>
              Rejected(fallback'["c1"].rejection) \in unsupported_params_by_model'[fallback["c1"].model]
      ]_vars

\* C26 as stated: the dropped parameter is remembered whatever the model
\* identifier.
C26_LearnedForEveryModel ==
    [][/\ FirstAttemptOmitsLearned
       /\ fallback'["c1"].attempt = fallback["c1"].attempt + 1 =>
              Rejected(fallback'["c1"].rejection) \in unsupported_params_by_model'[fallback["c1"].model]
      ]_vars

\* An invocation for m1 with both optional parameters sent neither in its
\* first request, while what m2 has learned is another set.
C26_Witness ==
    LET f == fallback["c1"] IN
    /\ f.model = "m1" /\ f.calls_made = 1
    /\ f.create_kwargs = Required \cup Optional /\ f.first = Required
    /\ unsupported_params_by_model["m1"] = Optional
    /\ unsupported_params_by_model["m2"] = {"seed"}

\* The parameters an error signals as rejected: the head of its param when
\* its code is one of the two unsupported codes, else the name its message
\* quotes; an empty name is no name.
Names(exc) ==
    (IF exc.param # NULL /\ exc.code \in {"unsupported_value", "unsupported_parameter"}
     THEN {exc.param[1]}
     ELSE IF exc.message # NULL /\ exc.message # <<>> THEN {exc.message[1]} ELSE {}) \ {""}

\* Every request built and sent carries model and messages.
RequiredKept ==
    LET f == fallback["c1"] IN
    /\ f.pc # "idle" => Required \subseteq f.attempt_kwargs
    /\ f.calls_made > 0 => Required \subseteq f.first /\ Required \subseteq f.last

\* A provider call answered by an error that names no parameter, one the
\* request does not carry, or model / messages, ends the invocation with
\* that error and leaves the learned sets alone.
OtherErrorsPropagate ==
    LET f == fallback["c1"]
        g == fallback'["c1"]
    IN  /\ g.calls_made = f.calls_made + 1
        /\ g.pc # "returned"
        /\ Names(g.rejection) \cap (f.attempt_kwargs \ Required) = {}
        => /\ g.pc = "raised"
           /\ g.error = g.rejection
           /\ unsupported_params_by_model' = unsupported_params_by_model

\* C27: every attempt of every invocation carries the caller's model and
\* messages, and an error that names no parameter, a parameter absent
\* from the request, or model / messages is propagated as it is, with no
\* further attempt and no change to the learned parameters.
C27_RequiredNeverDropped == []RequiredKept /\ [][OtherErrorsPropagate]_vars

\* After one retry the provider rejected `model`: the invocation raised
\* that error and the request it had sent carried model and messages.
C27_Witness ==
    LET f == fallback["c1"] IN
    /\ f.pc = "raised" /\ f.calls_made = 2
    /\ f.error = [NoError EXCEPT !.param = <<"model">>, !.code = "unsupported_parameter"]
    /\ Required \subseteq f.last
    /\ unsupported_params_by_model[f.model] = {"temperature"}

\* No invocation makes more than the six looped calls and the final one,
\* and one that has made them all is over.
CallsBounded ==
    LET f == fallback["c1"] IN
    /\ f.attempt <= FallbackAttempts
    /\ f.calls_made <= FallbackAttempts + 1
    /\ f.calls_made = FallbackAttempts + 1 => f.pc \in {"returned", "raised"}

\* The error answered to the final call is raised, whatever it names, and
\* nothing is learned from it.
CeilingRethrows ==
    LET f == fallback["c1"]
        g == fallback'["c1"]
    IN  f.calls_made = FallbackAttempts /\ g.calls_made = FallbackAttempts + 1 /\ g.pc # "returned"
        => /\ g.pc = "raised"
           /\ g.error = g.rejection
           /\ unsupported_params_by_model' = unsupported_params_by_model

\* C28: whatever the provider answers, an invocation of the fallback path
\* makes at most 6 looped provider calls and one final call and then is
\* over, returning or raising; the error answered to the final call is
\* rethrown, not retried.
C28_BoundedAttempts ==
    /\ []CallsBounded
    /\ [][CeilingRethrows]_vars
    /\ (fallback["c1"].pc \in {"strip", "attempt"}) ~> (fallback["c1"].pc \in {"returned", "raised"})

\* Six parameters were rejected one after the other, and the seventh call
\* was answered by the rejection of one more that the request carried.
C28_Witness ==
    LET f == fallback["c1"] IN
    /\ f.pc = "raised" /\ f.calls_made = FallbackAttempts + 1
    /\ Names(f.error) \cap (f.last \ Required) # {}

\* C29: with invocations for the same model interleaved over the shared
\* cache and a provider that accepts once the rejected parameters are
\* removed, no invocation ends with an exception.
C29_NoInvocationFails == \A c \in Callers : fallback[c].pc # "raised"

\* C30: a call with json_mode = true that returns, returns a text that
\* parses as JSON; an empty content is signalled as a failure.
C30_ReturnedTextParses ==
    LET call == calls["c1"] IN
    call.pc = "done" /\ call.op = "OpenAIService.call" /\ call.arg[2] = Bool(TRUE)
        /\ call.ret.err = ""
    => is_json(call.ret.ret)

\* The call site whose operation the step ran, and that operation.
Ran(c, op) == calls'[c] # calls[c] /\ calls'[c].op = op

\* What the operation of the step returned: the provider, the method.
Got(c) == calls'[c].ret

\* A step of the facade, as C31 describes it.
OneInstance ==
    \A c \in Callers :
        /\ Ran(c, "get_instance") \/ Ran(c, "call_llm") \/ Ran(c, "call_llm_with_search") =>
              /\ facade.instance # NoInstance =>
                    Got(c)[1] = facade.instance /\ facade' = facade
              /\ facade.instance = NoInstance =>
                    /\ Got(c)[1] = GeminiService(facade'.created)
                    /\ facade'.created = facade.created + 1
                    /\ facade'.instance = Got(c)[1]
        /\ Ran(c, "call_llm") => Got(c)[2] = "call"
        /\ Ran(c, "call_llm_with_search") => Got(c)[2] = "call_with_search"
        /\ Ran(c, "set_instance") => facade'.instance \in Substitutes
        /\ Ran(c, "reset") => facade'.instance = NoInstance

\* C31: the facade holds one instance.  get_instance returns the instance
\* that was set, leaving it in place, until the next set_instance or reset;
\* after a reset the next get_instance creates one default provider, keeps
\* it, and later calls return that same object; call_llm and
\* call_llm_with_search go to the instance get_instance returns at the
\* time of the call, by `call` and `call_with_search`.
C31_OneInstance == [][OneInstance]_vars

\* After a reset a second default provider was created, and a call through
\* call_llm went to it.
C31_Witness ==
    /\ facade = [instance |-> GeminiService(2), created |-> 2]
    /\ calls["c1"].op = "call_llm"
    /\ calls["c1"].ret = <<GeminiService(2), "call">>
    /\ calls["c2"].op = "reset"

\* The row of a code that was issued.
RowOfCode(code) ==
    db.invites[CHOOSE i \in 1..Len(db.invites) : db.invites[i].code_hash = sha256_hex(code)]

Revoked(row) == row.revoked_at # NULL

Expired(row) == row.expires_at # NULL /\ FromIso(row.expires_at) < now

EmailMismatch(row, email) == Truthy(row.allowed_email) /\ normalize_email(OrEmpty(email)) # row.allowed_email

\* C32: an invite that is revoked or past its expires_at is rejected with
\* InviteInvalidError by the database validation and by both gates when
\* they are on, whatever its remaining uses and the email supplied; the
\* error raised is that of the first failing check in the order revoked,
\* expired, email binding, usage cap, and a code that has no row is invalid.
C32_RevokedOrExpiredRejected ==
    /\ \A email \in EmailInputs \cup {NULL} :
          validate_db_invite(db, InviteCode(0), email).err = "InviteInvalidError"
    /\ \A code \in IssuedCodes(db), email \in EmailInputs \cup {NULL} :
          LET row == RowOfCode(code)
              reason == invite_rejection(row, email)
              direct == validate_db_invite(db, code, email)
          IN  /\ Revoked(row) \/ Expired(row) =>
                    /\ direct.err = "InviteInvalidError" /\ direct.db = db
                    /\ invite_only =>
                          validate_invite_for_signup(db, code, email).err = "InviteInvalidError"
                    /\ invite_required_for_login =>
                          validate_invite_for_login(db, code, email).err = "InviteInvalidError"
              /\ (direct.err = "InviteInvalidError") = (reason # "")
              /\ Revoked(row) => reason = "Invite code has been revoked."
              /\ ~Revoked(row) /\ Expired(row) => reason = "Invite code has expired."
              /\ ~Revoked(row) /\ ~Expired(row) /\ EmailMismatch(row, email) =>
                    reason \in {"Email is required for this invite code.",
                                "Invite code is not valid for this email."}
              /\ ~Revoked(row) /\ ~Expired(row) /\ ~EmailMismatch(row, email) /\ reason # "" =>
                    /\ reason = "Invite code has reached its usage limit."
                    /\ row.used_count >= IntVal(row.max_uses)

\* An invite with a use left, both revoked and expired, bound to an
\* email: rejected as revoked for that very email.
C32_Witness ==
    \E code \in IssuedCodes(db) :
        LET row == RowOfCode(code) IN
        /\ Revoked(row) /\ Expired(row)
        /\ row.used_count < IntVal(row.max_uses)
        /\ row.allowed_email = <<"a">>
        /\ invite_only
        /\ validate_invite_for_signup(db, code, <<"a">>).err = "InviteInvalidError"
        /\ invite_rejection(row, <<"a">>) = "Invite code has been revoked."

\* The values a Google login may carry as display_name or avatar_url.
NameInputs == {NULL, <<>>, <<" ">>, <<"n">>}

\* C33: a Google login for a subject that has an identity is a pure
\* login.  It succeeds without an invite code, creates no user and no
\* identity, changes display_name and avatar_url only to a non-empty new
\* value, and never changes a primary_email that is set.  The stored
\* values are those left by a login that supplied a name, a picture and
\* an email.
C33_ExistingIdentityLogin ==
    \A i \in 1..Len(db.auth_identities), email \in {NULL, <<"a">>, <<"b">>},
       display_name \in NameInputs, avatar_url \in NameInputs :
        LET sub == db.auth_identities[i].provider_sub
            first == authenticate_google(db, sub, <<"a">>, <<"m">>, <<"u">>, "True", NULL)
            uidx == UserIdx(db, db.auth_identities[i].user_id)
            stored == first.db.users[uidx]
            out == authenticate_google(first.db, sub, email, display_name, avatar_url,
                                       "False", NULL)
            after == out.db.users[uidx]
        IN  db.auth_identities[i].provider = "google" =>
                /\ first.err = "" /\ out.err = ""
                /\ out.ret = stored.id
                /\ Len(out.db.users) = Len(db.users)
                /\ out.db.auth_identities = db.auth_identities
                /\ out.db.invites = db.invites /\ out.db.invite_usages = db.invite_usages
                /\ after.display_name # stored.display_name => Truthy(display_name)
                /\ after.avatar_url # stored.avatar_url => Truthy(avatar_url)
                /\ Truthy(display_name) /\ display_name # <<" ">> => after.display_name = display_name
                /\ Truthy(avatar_url) => after.avatar_url = avatar_url
                /\ stored.primary_email # NULL /\ after.primary_email = stored.primary_email

\* The identities a user holds with a provider.
IdentitiesOf(user_id, provider) ==
    {i \in 1..Len(db.auth_identities) :
        db.auth_identities[i].user_id = user_id /\ db.auth_identities[i].provider = provider}

\* C34: after any sequence of create_password_user and authenticate_google
\* calls every user holds at most one password identity and at most one
\* google identity.
C34_OneIdentityPerProvider ==
    \A u \in 1..Len(db.users), provider \in {"password", "google"} :
        Cardinality(IdentitiesOf(db.users[u].id, provider)) <= 1

\* The usage rows that refer to an invite.
UsagesOf(d, invite_id) ==
    {i \in 1..Len(d.invite_usages) : d.invite_usages[i].invite_id = invite_id}

CountsMatch(d) ==
    /\ \A i \in 1..Len(d.invites) :
          d.invites[i].used_count = Cardinality(UsagesOf(d, d.invites[i].id))
    /\ \A i \in 1..Len(d.invite_usages) : InviteIdx(d, d.invite_usages[i].invite_id) # 0

\* record_invite_use on the current store: nothing changes for an empty
\* id or when it raises; when it returns for a non-empty id, that invite's
\* counter is one more, one usage row for it is appended, and nothing else
\* is touched.
RecordCountsOnce ==
    \A invite_id \in InviteIds(db) \cup {NULL, <<>>, Uuid("invite", 0)},
       user_id \in UserIds(db) \cup {NULL, Uuid("user", 0)} :
        LET out == record_invite_use(db, invite_id, user_id, <<" ", "A">>, "password")
            idx == InviteIdx(db, invite_id)
        IN  IF ~Truthy(invite_id) \/ out.err # ""
            THEN out.db = db /\ (~Truthy(invite_id) => out.err = "")
            ELSE /\ idx # 0
                 /\ out.db.invites = [db.invites EXCEPT ![idx].used_count = @ + 1]
                 /\ Len(out.db.invite_usages) = Len(db.invite_usages) + 1
                 /\ SubSeq(out.db.invite_usages, 1, Len(db.invite_usages)) = db.invite_usages
                 /\ out.db.invite_usages[Len(out.db.invite_usages)].invite_id = invite_id
                 /\ CountsMatch(out.db)

\* Usage rows are only ever appended.
UsagesAppendOnly ==
    /\ Len(db'.invite_usages) >= Len(db.invite_usages)
    /\ SubSeq(db'.invite_usages, 1, Len(db.invite_usages)) = db.invite_usages

\* C35: in every state each invite's used_count is the number of usage
\* rows that refer to it; record_invite_use adds one to the counter and
\* appends one usage row together, changes nothing for an empty id, and
\* no operation updates or deletes a usage row.
C35_UsedCountIsUsages == [](CountsMatch(db) /\ RecordCountsOnce) /\ [][UsagesAppendOnly]_vars

\* An invite used twice, with two usage rows.
C35_Witness ==
    \E i \in 1..Len(db.invites) :
        /\ db.invites[i].used_count = 2
        /\ Cardinality(UsagesOf(db, db.invites[i].id)) = 2

\* C36: no two distinct users have the same primary_email, unless it is
\* null, so that the lookup by primary_email of the Google link finds at
\* most one user for any email.
C36_PrimaryEmailUnique ==
    \A u \in 1..Len(db.users), v \in 1..Len(db.users) :
        u # v /\ db.users[u].primary_email # NULL =>
            db.users[u].primary_email # db.users[v].primary_email

\* C37: whenever authenticate_google links a new subject to an existing
\* user found by email E, that user already had an identity with email E
\* and email_verified true.
C37_LinkOnlyToProvenEmail ==
    \A google_sub \in GoogleSubs, email \in EmailInputs :
        LET out == authenticate_google(db, google_sub, email, NULL, NULL, "True", NULL)
            linked == /\ out.err = ""
                      /\ Len(out.db.users) = Len(db.users)
                      /\ Len(out.db.auth_identities) = Len(db.auth_identities) + 1
        IN  linked =>
                \E i \in 1..Len(db.auth_identities) :
                    /\ db.auth_identities[i].user_id = out.ret
                    /\ db.auth_identities[i].email = normalize_email(email)
                    /\ db.auth_identities[i].email_verified

\* A password login that succeeds on the current store is for an identity
\* one of whose tokens verify_email_token has consumed, and so is every
\* verified password identity.
LoginAfterVerification ==
    /\ \A email \in EmailInputs, password \in {Password1, Password2} :
          LET out == authenticate_password(db, email, password)
              idx == IdentityIdx(db, "password", normalize_email(email))
          IN  out.err = "" =>
                  /\ idx # 0
                  /\ db.auth_identities[idx].email_verified
                  /\ VerifiedBy(db, db.auth_identities[idx])
    /\ \A i \in 1..Len(db.auth_identities) :
          db.auth_identities[i].provider = "password" /\ db.auth_identities[i].email_verified
              => VerifiedBy(db, db.auth_identities[i])

\* No step takes email_verified back from an identity.
VerifiedStays ==
    \A i \in 1..Len(db.auth_identities) :
        /\ i <= Len(db'.auth_identities)
        /\ db'.auth_identities[i].id = db.auth_identities[i].id
        /\ db.auth_identities[i].email_verified => db'.auth_identities[i].email_verified

\* C38: a password login succeeds only for an identity for which
\* verify_email_token has succeeded before, on a token issued for that
\* identity, and once email_verified is true for an identity no operation
\* sets it back to false.
C38_LoginAfterVerification == []LoginAfterVerification /\ [][VerifiedStays]_vars

\* A verified password account has logged in and its user has also been
\* linked to a Google identity since.
C38_Witness ==
    \E i \in 1..Len(db.auth_identities), j \in 1..Len(db.auth_identities),
       k \in 1..Len(db.login_events) :
        /\ db.auth_identities[i].provider = "password"
        /\ db.auth_identities[i].email_verified
        /\ VerifiedBy(db, db.auth_identities[i])
        /\ db.auth_identities[j].provider = "google"
        /\ db.auth_identities[j].user_id = db.auth_identities[i].user_id
        /\ db.login_events[k].provider = "password" /\ db.login_events[k].reason = "login"

\* The outcome of a successful call carries the user's row as the call
\* leaves it in the store.
ReturnsPersistedRow(out) ==
    out.err = "" =>
        /\ UserIdx(out.db, out.ret) # 0
        /\ out.user = out.db.users[UserIdx(out.db, out.ret)]

PasswordReturnsRow ==
    \A email \in EmailInputs, password \in {Password1, Password2} :
        ReturnsPersistedRow(authenticate_password(db, email, password))

GoogleReturnsRow ==
    \A google_sub \in {<<"g", "1">>, <<"g", "2">>}, email \in {NULL, <<"a">>, <<"b">>},
       display_name \in {NULL, <<"n">>}, avatar_url \in {NULL, <<"u">>},
       email_verified \in {"True", "False"}, invite_code \in {NULL, StaticCode} :
        ReturnsPersistedRow(authenticate_google(db, google_sub, email, display_name,
                                                avatar_url, email_verified, invite_code))

\* C39: the User returned by a successful authenticate_password or
\* authenticate_google, on the login, link-and-login and signup paths,
\* equals the user's row as that call leaves it in the store, with the
\* refreshed last_login_at, display_name and avatar_url.
C39_ReturnedUserIsPersistedRow == PasswordReturnsRow /\ GoogleReturnsRow

\* The invite counters and the usage rows of two stores are the same.
SameInviteUse(d, e) ==
    /\ Len(e.invites) = Len(d.invites)
    /\ \A i \in 1..Len(d.invites) : e.invites[i].used_count = d.invites[i].used_count
    /\ e.invite_usages = d.invite_usages

\* Neither signup operation, succeeding or failing, with no code, a wrong
\* code or an issued code, touches a counter or a usage row.
SignupLeavesInviteUse ==
    /\ \A email \in EmailInputs, password \in {Password1, ShortPassword},
          invite_code \in {NULL, StaticCode, InviteCode(0)} \cup IssuedCodes(db) :
            SameInviteUse(db, create_password_user(db, email, password, NULL,
                                                   invite_code).db)
    /\ \A google_sub \in GoogleSubs, email \in {NULL, <<"a">>, <<"b">>},
          email_verified \in {"True", "False"},
          invite_code \in {NULL, StaticCode, InviteCode(0)} \cup IssuedCodes(db) :
            SameInviteUse(db, authenticate_google(db, google_sub, email, NULL, NULL,
                                                  email_verified, invite_code).db)

\* A step that changes a counter or the usage rows is a record_invite_use.
OnlyRecordCounts ==
    ~(/\ Len(db'.invites) >= Len(db.invites)
      /\ \A i \in 1..Len(db.invites) : db'.invites[i].used_count = db.invites[i].used_count
      /\ db'.invite_usages = db.invite_usages)
    => \E invite_id \in InviteIds(db), user_id \in {NULL} \cup UserIds(db),
          email \in {NULL} \cup EmailInputs, provider \in {"password", "google"} :
            db' = record_invite_use(db, invite_id, user_id, email, provider).db

\* C40: create_password_user and authenticate_google, on success or
\* failure and with any invite code, leave every invite's used_count and
\* the invite_usages table as they were; only record_invite_use changes
\* them.
C40_SignupNeverConsumes == []SignupLeavesInviteUse /\ [][OnlyRecordCounts]_vars

\* Under the invite gate a password account and a Google account have
\* signed up with the issued code, and its invite is still unused.
C40_Witness ==
    /\ invite_only
    /\ Len(db.invites) = 1 /\ db.invites[1].used_count = 0
    /\ db.invite_usages = <<>>
    /\ \E i \in 1..Len(db.login_events) : db.login_events[i].reason = "signup"
    /\ \E i \in 1..Len(db.login_events) : db.login_events[i].reason = "signup_and_login"

====
